---------------------------- MODULE Spec2Model ----------------------------
(***************************************************************************)
(* A model of pgcli's catalog describer, pgcli/packages/pgspecial.py:      *)
(*   - sql_name_pattern, the name pattern compiler (a character scan);     *)
(*   - describe_table_details / describe_one_table_details, the \d         *)
(*     command;                                                            *)
(*   - parse_special_command and execute, the dispatch of the special      *)
(*     commands, with the two toggles \x and \timing;                      *)
(*   - PGCli.__init__ and rehash of pgcli/main.py, as far as they set the  *)
(*     two flags the toggles flip.                                         *)
(*                                                                         *)
(* Text is modelled as a sequence of one-character strings, so that        *)
(* indexing, slicing and concatenation are the ones of the Python code.    *)
(* Python's index i is kept 0-based; pattern[i] is read as pattern[i + 1]. *)
(***************************************************************************)
EXTENDS Integers, Sequences, FiniteSets, TLC

VARIABLES
    pc,        \* position of the sql_name_pattern call: "idle", "scan", "done"
    scan,      \* locals of sql_name_pattern: pattern, i, inquotes, relname, schema
    ret,       \* the pair the sql_name_pattern call returned (NoValue while it runs)
    hist,      \* an earlier call a later one is compared with: what it returned
               \* (SpecPattern), with its pattern and what ran since (SpecCompile)
    dpc,       \* position of the describe_table_details call:
               \* "idle", "loop", "returned", "raised"
    dargs,     \* its arguments: pattern, verbose
    rows,      \* cur.fetchall() of the resolution query: (oid, nspname, relname)
    results,   \* its results list, one summary per appended result
    queries,   \* the queries the call has executed on the cursor, in order
    last,      \* the latest describe_one_table_details call, in full
    error,     \* the exception that left describe_table_details ("" for none)
    use_expanded_output,  \* the module's flag of the same name
    TIMING_ENABLED,       \* the module's flag of the same name
    xpc,       \* position of the execute call: "idle", "returned", "raised"
    xcall      \* the execute call: its input, what it parsed, looked up, ran

patVars == <<pc, scan, ret, hist>>

descVars == <<dpc, dargs, rows, results, queries, last, error>>

execVars == <<use_expanded_output, TIMING_ENABLED, xpc, xcall>>

vars == <<pc, scan, ret, hist, dpc, dargs, rows, results, queries, last, error,
          use_expanded_output, TIMING_ENABLED, xpc, xcall>>

---------------------------------------------------------------------------
(* Bounds of the checked instances.                                        *)

\* longest pattern drawn from Alphabet
MaxLen == 4

---------------------------------------------------------------------------
(* Characters.                                                             *)

\* Python's None. Text is a sequence of one-character strings, so this
\* one-element sequence holding a longer string is equal to no text.
None == <<"None">>

\* no value yet (before any call has returned)
NoValue == <<"NoValue">>

QUOTE == "\""

BACKSLASH == "\\"

UpperSeq == <<"A","B","C","D","E","F","G","H","I","J","K","L","M",
              "N","O","P","Q","R","S","T","U","V","W","X","Y","Z">>

LowerSeq == <<"a","b","c","d","e","f","g","h","i","j","k","l","m",
              "n","o","p","q","r","s","t","u","v","w","x","y","z">>

\* str.isupper() of one character
isupper(c) == \E k \in 1..Len(UpperSeq) : UpperSeq[k] = c

\* str.lower() of one character
lower(c) ==
    IF isupper(c)
    THEN LowerSeq[CHOOSE k \in 1..Len(UpperSeq) : UpperSeq[k] = c]
    ELSE c

\* the characters of the literal '|*+?()[]{}.^\\' tested inside quotes
RegexMeta == {"|", "*", "+", "?", "(", ")", "[", "]", "{", "}", ".", "^", BACKSLASH}

---------------------------------------------------------------------------
(* sql_name_pattern.                                                       *)

\* a defect: inquotes is a name of the module, as use_expanded_output is (a
\* global statement, and no assignment on entry): a call begins with the
\* quoting the call before it ended with
ScanInit_KeepQuotes(pattern) ==
    [pattern |-> pattern, i |-> 0, inquotes |-> scan.inquotes,
     relname |-> <<>>, schema |-> None]

\* the locals on entry
ScanInit(pattern) ==
    [pattern |-> pattern, i |-> 0, inquotes |-> FALSE,
     relname |-> <<>>, schema |-> None]

\* a defect: a doubled quote is a literal quote outside quotes too
OnQuote_DoubledAnywhere(s) ==
    IF s.i + 1 < Len(s.pattern) /\ s.pattern[s.i + 2] = QUOTE
    THEN [s EXCEPT !.relname = Append(@, QUOTE), !.i = @ + 2]
    ELSE [s EXCEPT !.inquotes = ~@, !.i = @ + 1]

\* a defect: a quote that opens or closes is not consumed
OnQuote_Stuck(s) ==
    IF s.inquotes /\ s.i + 1 < Len(s.pattern) /\ s.pattern[s.i + 2] = QUOTE
    THEN [s EXCEPT !.relname = Append(@, QUOTE), !.i = @ + 2]
    ELSE [s EXCEPT !.inquotes = ~@]

\* c == '"': a doubled quote inside quotes is one literal quote and skips the
\* second one (i += 1, then the loop's i += 1); any other quote toggles
OnQuote(s) ==
    IF s.inquotes /\ s.i + 1 < Len(s.pattern) /\ s.pattern[s.i + 2] = QUOTE
    THEN [s EXCEPT !.relname = Append(@, QUOTE), !.i = @ + 2]
    ELSE [s EXCEPT !.inquotes = ~@, !.i = @ + 1]

\* a defect: a dot splits schema from name inside quotes too
IsSeparator_AnyDot(s, c) == c = "."

\* elif not inquotes and c == '.'
IsSeparator(s, c) == ~s.inquotes /\ c = "."

\* a defect: only the first unquoted dot sets the schema
OnSeparator_KeepFirst(s) ==
    [s EXCEPT !.schema = IF @ = None THEN s.relname ELSE @,
              !.relname = <<>>, !.i = @ + 1]

\* a defect: the schema keeps the segments before the last one
OnSeparator_Accumulate(s) ==
    [s EXCEPT !.schema = IF @ = None THEN s.relname ELSE @ \o <<".">> \o s.relname,
              !.relname = <<>>, !.i = @ + 1]

\* schema = relname; relname = ''
OnSeparator(s) ==
    [s EXCEPT !.schema = s.relname, !.relname = <<>>, !.i = @ + 1]

\* a defect: the dollar is forgotten
NeedsBackslash_NoDollar(s, c) == s.inquotes /\ c \in RegexMeta

\* if c == '$' or inquotes and c in '|*+?()[]{}.^\\'
NeedsBackslash(s, c) == c = "$" \/ (s.inquotes /\ c \in RegexMeta)

\* a defect: the backslash is itself escaped, so two are emitted
OnOther_DoubleEscape(s, c) ==
    IF NeedsBackslash(s, c)
    THEN [s EXCEPT !.relname = @ \o <<BACKSLASH, BACKSLASH, c>>, !.i = @ + 1]
    ELSE [s EXCEPT !.relname = Append(@, c), !.i = @ + 1]

\* the else branch: the character itself, after a backslash when it needs one
OnOther(s, c) ==
    IF NeedsBackslash(s, c)
    THEN [s EXCEPT !.relname = @ \o <<BACKSLASH, c>>, !.i = @ + 1]
    ELSE [s EXCEPT !.relname = Append(@, c), !.i = @ + 1]

\* a defect: letters are folded to lowercase inside quotes too
ScanStepBody_FoldQuoted(s) ==
    LET c == s.pattern[s.i + 1]
    IN  IF c = QUOTE
        THEN OnQuote(s)
        ELSE IF isupper(c)
        THEN [s EXCEPT !.relname = Append(@, lower(c)), !.i = @ + 1]
        ELSE IF ~s.inquotes /\ c = "*"
        THEN [s EXCEPT !.relname = @ \o <<".", "*">>, !.i = @ + 1]
        ELSE IF ~s.inquotes /\ c = "?"
        THEN [s EXCEPT !.relname = Append(@, "."), !.i = @ + 1]
        ELSE IF IsSeparator(s, c)
        THEN OnSeparator(s)
        ELSE OnOther(s, c)

\* one iteration of the while loop, on the locals s (s.i < len(pattern))
ScanStepBody(s) ==
    LET c == s.pattern[s.i + 1]
    IN  IF c = QUOTE
        THEN OnQuote(s)
        ELSE IF ~s.inquotes /\ isupper(c)
        THEN [s EXCEPT !.relname = Append(@, lower(c)), !.i = @ + 1]
        ELSE IF ~s.inquotes /\ c = "*"
        THEN [s EXCEPT !.relname = @ \o <<".", "*">>, !.i = @ + 1]
        ELSE IF ~s.inquotes /\ c = "?"
        THEN [s EXCEPT !.relname = Append(@, "."), !.i = @ + 1]
        ELSE IF IsSeparator(s, c)
        THEN OnSeparator(s)
        ELSE OnOther(s, c)

\* '^(' + text + ')$'
Anchor(text) == <<"^", "(">> \o text \o <<")", "$">>

\* a defect: the schema is anchored whenever a dot has set it, empty or not
ScanReturn_AnchorEmptySchema(s) ==
    <<IF s.schema # None THEN Anchor(s.schema) ELSE s.schema,
      IF s.relname # <<>> THEN Anchor(s.relname) ELSE s.relname>>

\* a defect: the name is anchored even when it is empty
ScanReturn_AlwaysAnchor(s) ==
    <<IF s.schema # None /\ s.schema # <<>> THEN Anchor(s.schema) ELSE s.schema,
      Anchor(s.relname)>>

\* the code after the loop: "if relname:" and "if schema:" are Python's
\* truth tests (None and '' are false); the returned (schema, relname)
ScanReturn(s) ==
    <<IF s.schema # None /\ s.schema # <<>> THEN Anchor(s.schema) ELSE s.schema,
      IF s.relname # <<>> THEN Anchor(s.relname) ELSE s.relname>>

RECURSIVE ScanLoop(_)
\* the while loop run to its end
ScanLoop(s) == IF s.i < Len(s.pattern) THEN ScanLoop(ScanStepBody(s)) ELSE s

\* the function as a whole
sql_name_pattern(pattern) == ScanReturn(ScanLoop(ScanInit(pattern)))

---------------------------------------------------------------------------
(* The patterns compiled.                                                  *)

Alphabet == {QUOTE, ".", "*", "?", "$", "+", "a", "B"}

RECURSIVE TextsUpTo(_)
\* every text over Alphabet of length at most n
TextsUpTo(n) ==
    IF n = 0 THEN {<<>>}
    ELSE LET shorter == TextsUpTo(n - 1)
         IN  shorter \cup {Append(t, c) : t \in shorter, c \in Alphabet}

\* the pattern of the function's doctest: foo*."b""$ar*"
DocPattern ==
    <<"f", "o", "o", "*", ".", QUOTE, "b", QUOTE, QUOTE, "$", "a", "r", "*", QUOTE>>

\* longer patterns: three segments, quoted dots, quoted metacharacters, a
\* backslash before a $ outside and inside quotes
LongPatterns ==
    { DocPattern,
      <<BACKSLASH, "$">>,
      <<"a", BACKSLASH, "$">>,
      <<QUOTE, BACKSLASH, "$", QUOTE>>,
      <<"a", ".", "b", ".", "c">>,
      <<"A", "*", ".", "b", "?", ".", "C">>,
      <<QUOTE, "a", ".", "b", QUOTE, ".", "c", ".", "d">>,
      <<"a", ".", QUOTE, "b", ".", "c", QUOTE>>,
      <<QUOTE, "|", "(", ")", "[", "]", "{", "}", "^", BACKSLASH, QUOTE>>,
      <<"|", "(", ")", "[", "]", "{", "}", "^", BACKSLASH>>,
      <<"a", ".", "b", ".", QUOTE, "c">> }

Patterns == TextsUpTo(MaxLen) \cup LongPatterns

---------------------------------------------------------------------------
(* The state between calls.                                                *)

\* no call is running: there are no locals
NoLocals ==
    [pattern |-> <<>>, i |-> 0, inquotes |-> FALSE, relname |-> <<>>, schema |-> None]

PatternIdle ==
    /\ pc = "idle"
    /\ scan = NoLocals
    /\ ret = NoValue
    /\ hist = NoValue

---------------------------------------------------------------------------
(* The catalog behind the cursor.                                          *)

Public == <<"p", "u", "b", "l", "i", "c">>

Reporting == <<"r", "e", "p", "o", "r", "t", "i", "n", "g">>

Orders == <<"o", "r", "d", "e", "r", "s">>

Users == <<"u", "s", "e", "r", "s">>

\* pg_class joined with pg_namespace: the relations there are, in the order
\* of (nspname, relname); reporting is not on the search path
pg_class ==
    << [oid |-> 11, nspname |-> Public, relname |-> Orders, visible |-> TRUE],
       [oid |-> 12, nspname |-> Public, relname |-> Users, visible |-> TRUE],
       [oid |-> 13, nspname |-> Reporting, relname |-> Orders, visible |-> FALSE] >>

\* the characters that repeat what stands before them
Quantifiers == {"*", "+"}

RECURSIVE RegexErrorFrom(_, _, _)
\* PostgreSQL rejects the regex re from position i on, operand telling
\* whether something a quantifier can repeat stands just before i: a
\* quantifier that begins the regex or follows a quantifier or the
\* constraint $, and a backslash with nothing after it
RegexErrorFrom(re, i, operand) ==
    IF i > Len(re) THEN FALSE
    ELSE IF re[i] = BACKSLASH
    THEN i = Len(re) \/ RegexErrorFrom(re, i + 2, TRUE)
    ELSE IF re[i] \in Quantifiers
    THEN ~operand \/ RegexErrorFrom(re, i + 1, FALSE)
    ELSE IF re[i] = "$"
    THEN RegexErrorFrom(re, i + 1, FALSE)
    ELSE RegexErrorFrom(re, i + 1, TRUE)

\* the query of a source with such a body raises instead of matching
RegexError(re) == RegexErrorFrom(re, 1, FALSE)

RECURSIVE RegexFrom(_, _, _, _)
\* PostgreSQL's text ~ regex, for the regexes the patterns below compile to
\* and PostgreSQL accepts: an anchored group of atoms, each a literal
\* character, \c (c itself) or . (any one character), an atom followed by *
\* (any number of it) or + (one or more of it), and a $ that no backslash
\* escapes (the end of the text). re from position i on matches text from
\* position j to its end.
RegexFrom(re, i, text, j) ==
    IF i > Len(re) THEN j > Len(text)
    ELSE IF re[i] = "$"
    THEN j > Len(text) /\ RegexFrom(re, i + 1, text, j)
    ELSE LET width == IF re[i] = BACKSLASH THEN 2 ELSE 1
             after == i + width
             Hit(k) ==
                 /\ k <= Len(text)
                 /\ IF re[i] = BACKSLASH THEN i < Len(re) /\ text[k] = re[i + 1]
                    ELSE IF re[i] = "." THEN TRUE
                    ELSE text[k] = re[i]
             Repeated(least) ==
                 \E m \in (j + least)..(Len(text) + 1) :
                     /\ \A k \in j..(m - 1) : Hit(k)
                     /\ RegexFrom(re, after + 1, text, m)
         IN  IF after <= Len(re) /\ re[after] = "*" THEN Repeated(0)
             ELSE IF after <= Len(re) /\ re[after] = "+" THEN Repeated(1)
             ELSE Hit(j) /\ RegexFrom(re, after, text, j + 1)

\* text ~ '^(body)$'
RegexMatch(re, text) == RegexFrom(SubSeq(re, 3, Len(re) - 2), 1, text, 1)

\* Python's truth test of a pattern source: None and '' are false
Truthy(text) == text # None /\ text # <<>>

\* the WHERE clause describe_table_details builds from the compiled pattern
WhereClause(pattern, compiled, rel) ==
    /\ (pattern = <<>>) => rel.visible
    /\ Truthy(compiled[1]) => RegexMatch(compiled[1], rel.nspname)
    /\ Truthy(compiled[2]) => RegexMatch(compiled[2], rel.relname)

\* the resolution query: SELECT c.oid, n.nspname, c.relname ... ORDER BY 2,3
ResolveQuery(pattern) ==
    LET compiled == sql_name_pattern(pattern)
        F[n \in 0..Len(pg_class)] ==
            IF n = 0 THEN <<>>
            ELSE IF WhereClause(pattern, compiled, pg_class[n])
            THEN Append(F[n - 1], pg_class[n])
            ELSE F[n - 1]
    IN  F[Len(pg_class)]

\* the patterns \d is called with: none, one relation, two, one by schema,
\* no relation, every relation
DescribePatterns ==
    { <<>>,
      Users,
      Orders,
      Public \o <<".">> \o Orders,
      <<"n", "o", "s", "u", "c", "h">>,
      <<"*">> }

---------------------------------------------------------------------------
(* What the catalog answers about one relation when it is described.       *)

\* most rows the trigger query returns
MaxTriggers == 2

\* pg_class.relkind
Kinds == {"r", "v", "m", "i", "S", "s", "f", "c"}

\* pg_trigger.tgenabled: a character, or a boolean ("true", "false" here)
TgEnabled == {"O", "D", "A", "R", "true", "false"}

\* pg_rewrite.ev_enabled of the rows the rules query returns
RuleRows == {<<>>, <<"O">>, <<"D">>}

RECURSIVE SeqsUpTo(_, _)
\* the sequences over S of length at most n
SeqsUpTo(S, n) ==
    IF n = 0 THEN {<<>>}
    ELSE LET shorter == SeqsUpTo(S, n - 1)
         IN  shorter \cup {Append(t, x) : t \in shorter, x \in S}

\* the relation is gone: the flags query returns no row
GoneFacts ==
    [hasrow |-> FALSE, relkind |-> "r", relchecks |-> 0, relhasindex |-> FALSE,
     relhasrules |-> FALSE, relhastriggers |-> FALSE, seqrow |-> FALSE,
     nowner |-> 0, rules |-> <<>>, triggers |-> <<>>, ftoptions |-> FALSE,
     reloptions |-> <<>>, reltablespace |-> 0, ncols |-> 0,
     nindexes |-> 0, nchecks |-> 0, nfkeys |-> 0, nrefs |-> 0,
     ninherits |-> 0, nchildren |-> 0, indisvalid |-> TRUE, fails |-> ""]

\* the answers, apart from the triggers, for a relation that is there; an
\* answer no query asks for, or that the catalog cannot give for the kind,
\* has one value only
UntriggeredFacts ==
    { f \in [hasrow : {TRUE}, relkind : Kinds, relchecks : {0, 1},
             relhasindex : BOOLEAN, relhasrules : BOOLEAN,
             relhastriggers : {FALSE}, seqrow : BOOLEAN, nowner : {0, 1},
             rules : RuleRows, triggers : {<<>>},
             ftoptions : BOOLEAN, reloptions : {<<>>}, reltablespace : {0},
             ncols : {1}, nindexes : {0}, nchecks : {0}, nfkeys : {0},
             nrefs : {0}, ninherits : {0}, nchildren : {0},
             indisvalid : {TRUE}, fails : {""}] :
        /\ (f.relkind \notin {"r", "m", "f"}) => (f.relchecks = 0 /\ ~f.relhasindex)
        /\ (f.relkind \notin {"r", "m", "f", "v"}) => ~f.relhasrules
        /\ (f.relkind # "S") => (~f.seqrow /\ f.nowner = 0)
        /\ (~f.seqrow) => f.nowner = 0
        /\ (~f.relhasrules) => f.rules = <<>>
        /\ (f.relkind # "f") => ~f.ftoptions }

\* the answers for a relation that is there: without triggers, or with
\* relhastriggers and any rows of the trigger query
LiveFacts ==
    UntriggeredFacts \cup
    { [f EXCEPT !.relhastriggers = TRUE, !.triggers = tg] :
        f \in UntriggeredFacts, tg \in SeqsUpTo(TgEnabled, MaxTriggers) }

Facts == {GoneFacts} \cup LiveFacts

\* the queries of describe_one_table_details
QueryNames ==
    {"flags", "seqvalue", "columns", "viewdef", "indexinfo", "seqowner",
     "indexes", "checks", "fkeys", "refs", "rules", "viewrules", "triggers",
     "server", "inherits", "children"}

\* relations for which the database fails one of the queries (cur.execute
\* raises); they have no rule rows and at most one trigger
FailFacts ==
    { [f EXCEPT !.fails = q] :
        f \in {g \in LiveFacts : g.rules = <<>> /\ g.triggers \in {<<>>, <<"O">>}},
        q \in QueryNames }

\* what the catalog may answer about a relation \d describes
LoopFacts == Facts \cup FailFacts

---------------------------------------------------------------------------
(* describe_one_table_details.                                             *)

\* cur.rowcount > 0
HasRows(rowcount) == rowcount > 0

\* a column value that is a string, and one that is an oid (an integer)
Text(t) == [text |-> t]

Oid(n) == [oid |-> n]

\* Python's truth test of a column value: '' and 0 are false
TruthyValue(v) == IF "oid" \in DOMAIN v THEN v.oid # 0 ELSE v.text # <<>>

\* the row of the flags query, in the order of its SELECT list; the seventh
\* column is the reloptions string when verbose and '' otherwise
FlagsRow(f, verbose) ==
    << f.relchecks, f.relkind, f.relhasindex, f.relhasrules, f.relhastriggers,
       FALSE, Text(IF verbose THEN f.reloptions ELSE <<>>),
       Oid(f.reltablespace), <<>>, "p" >>

\* a defect: hastriggers is read one column early
TableInfo_make_Shifted(row) ==
    [checks |-> row[1], relkind |-> row[2], hasindex |-> row[3],
     hasrules |-> row[4], hastriggers |-> row[4], hasoids |-> row[6],
     tablespace |-> row[7], reloptions |-> row[8], reloftype |-> row[9],
     relpersistence |-> row[10]]

\* TableInfo._make(row): the fields of the namedtuple, by position
TableInfo_make(row) ==
    [checks |-> row[1], relkind |-> row[2], hasindex |-> row[3],
     hasrules |-> row[4], hastriggers |-> row[5], hasoids |-> row[6],
     tablespace |-> row[7], reloptions |-> row[8], reloftype |-> row[9],
     relpersistence |-> row[10]]

\* one describe_one_table_details call under way: the queries executed, the
\* entries appended to status, the exception raised ("" for none)
Begun == [queries |-> <<>>, status |-> <<>>, exc |-> "", headers |-> <<>>,
          cells |-> <<>>, fails |-> ""]

\* the call begins; fails is the query the database will fail, if any
Begin(f) == [Begun EXCEPT !.fails = f.fails]

\* a defect: a query that fails is taken for a query without rows
Executed_Swallowed(d, name) ==
    IF d.exc # "" THEN d ELSE [d EXCEPT !.queries = Append(@, name)]

\* cur.execute(sql) of the named query, which raises if the database fails
\* it; once an exception is raised nothing more of the call is executed
Executed(d, name) ==
    IF d.exc # "" THEN d
    ELSE IF d.fails = name
    THEN [d EXCEPT !.queries = Append(@, name), !.exc = "DatabaseError"]
    ELSE [d EXCEPT !.queries = Append(@, name)]

\* status.append(...): a heading (row 0) or the line of the row-th row
Appended(d, text, row) ==
    IF d.exc # "" THEN d
    ELSE [d EXCEPT !.status = Append(@, [text |-> text, row |-> row])]

\* status.append("...: %s" % value): a line that shows a column value
AppendedValue(d, text, value) ==
    IF d.exc # "" THEN d
    ELSE [d EXCEPT !.status = Append(@, [text |-> text, row |-> 0,
                                        value |-> value])]

\* the statement raises the exception
Raised(d, exception) == IF d.exc # "" THEN d ELSE [d EXCEPT !.exc = exception]

\* the kinds whose columns have modifiers, and a description when verbose
ModifierKinds == {"r", "v", "m", "f", "c"}

\* the kinds whose columns have a statistics target when verbose
TableKinds == {"r", "m", "f"}

\* headers: the column names, by kind and verbosity
Headers(t, verbose) ==
    <<"Column", "Type">>
    \o (IF t.relkind \in ModifierKinds THEN <<"Modifiers">> ELSE <<>>)
    \o (IF t.relkind = "S" THEN <<"Value">> ELSE <<>>)
    \o (IF t.relkind = "i" THEN <<"Definition">> ELSE <<>>)
    \o (IF t.relkind = "f" THEN <<"FDW Options">> ELSE <<>>)
    \o (IF verbose THEN <<"Storage">> ELSE <<>>)
    \o (IF verbose /\ t.relkind \in TableKinds THEN <<"Stats target">> ELSE <<>>)
    \o (IF verbose /\ t.relkind \in ModifierKinds THEN <<"Description">> ELSE <<>>)

\* TableInfo.relkind: the attribute of the class, not of tableinfo; it is the
\* namedtuple's property object, which equals no string
TableInfo_relkind(t) == "property object"

\* one row of cells, each cell named after the column of the column query
\* (or of the sequence's value row) it shows
Cell(t, verbose) ==
    <<"attname", "type">>
    \o (IF t.relkind \in ModifierKinds THEN <<"modifier">> ELSE <<>>)
    \o (IF t.relkind = "S" THEN <<"seq_values">> ELSE <<>>)
    \o (IF TableInfo_relkind(t) = "i" THEN <<"indexdef">> ELSE <<>>)
    \o (IF t.relkind = "f" THEN <<"attfdwoptions">> ELSE <<>>)
    \o (IF verbose THEN <<"attstorage">> ELSE <<>>)
    \o (IF verbose /\ t.relkind \in TableKinds THEN <<"attstattarget">> ELSE <<>>)
    \o (IF verbose /\ t.relkind \in ModifierKinds THEN <<"col_description">> ELSE <<>>)

\* the column query, the headers, and one row of cells per column
Columns(d, t, f, verbose) ==
    LET q == Executed(d, "columns")
    IN  IF q.exc # "" THEN q
        ELSE [q EXCEPT !.headers = Headers(t, verbose),
                       !.cells = [i \in 1..f.ncols |-> Cell(t, verbose)]]

RECURSIVE Lines(_, _, _, _)
\* for row in cur: status.append(...) for each of the rows j..n
Lines(d, line, j, n) ==
    IF j > n THEN d ELSE Lines(Appended(d, line, j), line, j + 1, n)

\* a query of n rows, its heading if cur.rowcount > 0, a line for each row
Section(d, query, heading, line, n) ==
    LET q == Executed(d, query)
        h == IF HasRows(n) THEN Appended(q, heading, 0) ELSE q
    IN  Lines(h, line, 1, n)

\* the footer of a sequence: result = cur.fetchone(); result[0]
SequenceFooter(d, f) ==
    LET q == Executed(d, "seqowner")
    IN  IF f.nowner = 0
        THEN Raised(q, "TypeError")
        ELSE Appended(q, "Owned by:", 1)

\* the footer of an index: the row of the index, its table, and ", invalid"
\* under "if indisvalid:"
IndexFooter(d, f) ==
    LET q == Appended(Executed(d, "indexinfo"), "for table", 1)
    IN  IF f.indisvalid THEN Appended(q, ", invalid", 1) ELSE q

RECURSIVE IndexLines(_, _, _)
\* for row in cur, from the j-th index on: its name and definition, and
\* " INVALID" under "if not row[4]:"
IndexLines(d, f, j) ==
    IF j > f.nindexes THEN d
    ELSE LET a == Appended(d, "index", j)
         IN  IndexLines(IF ~f.indisvalid THEN Appended(a, " INVALID", j) ELSE a,
                        f, j + 1)

\* the indexes of a table: the query, the heading if cur.rowcount > 0, the
\* lines
Indexes(d, f) ==
    LET q == Executed(d, "indexes")
    IN  IndexLines(IF HasRows(f.nindexes) THEN Appended(q, "Indexes:", 0) ELSE q,
                   f, 1)

\* the headings of the rule categories 0..3
RuleHeading ==
    <<"Rules:", "Disabled rules:", "Rules firing always:",
      "Rules firing on replica only:">>

\* the rules of a table, in category 0: the first row either is listed (it
\* is enabled, 'O'), and after the heading ruledef += 12 adds a number to a
\* string, or is not, and list_rule is read unbound; no later row and no
\* later category is reached
TableRules(d, f) ==
    LET q == Executed(d, "rules")
    IN  IF ~HasRows(Len(f.rules)) THEN q
        ELSE IF f.rules[1] = "O"
        THEN Raised(Appended(q, RuleHeading[1], 0), "TypeError")
        ELSE Raised(q, "UnboundLocalError")

\* the footer of a table, a materialized view or a foreign table, up to its
\* rules
TableFooter(d, t, f) ==
    LET a == IF t.hasindex
             THEN Indexes(d, f)
             ELSE d
        b == IF t.checks # 0
             THEN Section(a, "checks", "Check constraints:", "check", f.nchecks)
             ELSE a
        c == IF t.hastriggers
             THEN Section(Section(b, "fkeys", "Foreign-key constraints:",
                                  "fkey", f.nfkeys),
                          "refs", "Referenced by:", "ref", f.nrefs)
             ELSE b
    IN  IF t.hasrules /\ t.relkind # "m" THEN TableRules(c, f) ELSE c

\* if (view_def): the definition, then the rules, where ruledef += 12 adds a
\* number to a string
ViewFooter(d, t, f) ==
    IF d.exc # "" THEN d
    ELSE LET a == Appended(d, "View definition:", 0)
         IN  IF ~t.hasrules THEN a
             ELSE LET q == Executed(a, "viewrules")
                  IN  IF HasRows(Len(f.rules))
                      THEN Raised(Appended(q, "Rules:", 0), "TypeError")
                      ELSE q

\* whether a trigger row falls into the category
InCategory(category, tgenabled) ==
    CASE category = 0 -> tgenabled = "O" \/ tgenabled = "true"
      [] category = 1 -> tgenabled = "D" \/ tgenabled = "false"
      [] category = 2 -> tgenabled = "A"
      [] category = 3 -> tgenabled = "R"

TriggerHeading ==
    <<"Triggers:", "Disabled triggers:", "Triggers firing always:",
      "Triggers firing on replica only:">>

RECURSIVE TriggerRowsFrom(_, _, _, _, _, _)
\* for row in cur, from the j-th row the cursor still holds; list_trigger is
\* set by a matching row and is not reset by the rows after it
TriggerRowsFrom(d, category, cursor, j, have_heading, list_trigger) ==
    IF j > Len(cursor) THEN d
    ELSE LET listed == list_trigger \/ InCategory(category, cursor[j].tgenabled)
         IN  IF ~listed
             THEN TriggerRowsFrom(d, category, cursor, j + 1, have_heading, listed)
             ELSE LET h == IF have_heading THEN d
                           ELSE Appended(d, TriggerHeading[category + 1], 0)
                  IN  TriggerRowsFrom(Appended(h, "trigger", cursor[j].row),
                                      category, cursor, j + 1, TRUE, listed)

\* the rows of the trigger query, each with its place in the result
TriggerCursor(f) ==
    [j \in 1..Len(f.triggers) |-> [row |-> j, tgenabled |-> f.triggers[j]]]

\* what "for row in cur" finds after an earlier "for row in cur" has run to
\* the end: a psycopg2 cursor is read forward only
Exhausted(cursor) == <<>>

RECURSIVE TriggerCategories(_, _, _)
\* for category in range(4)
TriggerCategories(d, category, cursor) ==
    IF category > 3 THEN d
    ELSE TriggerCategories(TriggerRowsFrom(d, category, cursor, 1, FALSE, FALSE),
                           category + 1, Exhausted(cursor))

\* if tableinfo.hastriggers: the trigger query and its four categories
TriggerFooter(d, t, f) ==
    IF d.exc # "" \/ ~t.hastriggers THEN d
    ELSE LET q == Executed(d, "triggers")
         IN  IF HasRows(Len(f.triggers))
             THEN TriggerCategories(q, 0, TriggerCursor(f))
             ELSE q

\* the end of a table's footer: the foreign server, where the options are
\* read from the undefined name ftoptions, then parents and children
TableTail(d, t, f, verbose) ==
    IF d.exc # "" \/ t.relkind \notin {"r", "m", "f"} THEN d
    ELSE LET a == IF t.relkind # "f" THEN d
                  ELSE LET q == Appended(Executed(d, "server"), "Server:", 1)
                       IN  IF f.ftoptions THEN Raised(q, "NameError") ELSE q
         IN  IF a.exc # "" THEN a
             ELSE LET i == Section(a, "inherits", "Inherits", "inherit",
                                   f.ninherits)
                      q == Executed(i, "children")
                      b == IF verbose
                           THEN Section(i, "children", "Child tables", "child",
                                        f.nchildren)
                           ELSE IF HasRows(f.nchildren)
                           THEN Appended(q, "Number of child tables:", 0)
                           ELSE q
                  IN  IF verbose /\ t.relkind # "m"
                      THEN Appended(b, "Has OIDs:", 0) ELSE b

\* a defect: the view definition is fetched whatever the verbosity
ViewDef_AnyVerbosity(t, verbose) == t.relkind = "v" \/ t.relkind = "m"

\* (tableinfo.relkind == 'v' or tableinfo.relkind == 'm') and verbose
ViewDef(t, verbose) == (t.relkind = "v" \/ t.relkind = "m") /\ verbose

\* a defect: the end of the table's footer comes before the triggers
AfterFooter_TailFirst(d, t, f, verbose) ==
    TriggerFooter(TableTail(d, t, f, verbose), t, f)

\* what follows the footer of the kind: the triggers, then the end of a
\* table's footer
AfterFooter(d, t, f, verbose) ==
    TableTail(TriggerFooter(d, t, f), t, f, verbose)

\* the footers, by kind, and what follows them for every kind
Footers(d, t, f, verbose) ==
    LET view_def == ViewDef(t, verbose)
        a == IF view_def THEN Executed(d, "viewdef") ELSE d
        b == CASE t.relkind = "i" -> IndexFooter(a, f)
               [] t.relkind = "S" -> SequenceFooter(a, f)
               [] t.relkind \in {"r", "m", "f"} -> TableFooter(a, t, f)
               [] OTHER -> a
        c == IF view_def THEN ViewFooter(b, t, f) ELSE b
        e == AfterFooter(c, t, f, verbose)
    IN  IF e.exc = "" /\ verbose /\ TruthyValue(t.reloptions)
        THEN AppendedValue(e, "Options:", t.reloptions) ELSE e

\* what the call hands back: a result tuple of the kind, or the exception
Outcome(d, kind) == [kind |-> kind, queries |-> d.queries, status |-> d.status,
                     exc |-> d.exc, headers |-> d.headers, cells |-> d.cells]

\* a defect: a relation without a flags row is described all the same
FlagsFound_Always(f) == TRUE

\* if (cur.rowcount > 0) after the flags query
FlagsFound(f) == HasRows(IF f.hasrow THEN 1 ELSE 0)

\* the call as a whole, f being what the catalog answers
describe_one_table_details(f, verbose) ==
    LET q == Executed(Begin(f), "flags")
    IN  IF q.exc # "" THEN Outcome(q, "Raised")
        ELSE IF ~FlagsFound(f) THEN Outcome(q, "NotFoundOid")
        ELSE LET t == TableInfo_make(FlagsRow(f, verbose))
                 s == IF t.relkind = "S" THEN Executed(q, "seqvalue") ELSE q
             IN  IF s.exc # "" THEN Outcome(s, "Raised")
                 ELSE IF t.relkind = "S" /\ ~HasRows(IF f.seqrow THEN 1 ELSE 0)
                 THEN Outcome(s, "SomethingWentWrong")
                 ELSE LET d == Footers(Columns(s, t, f, verbose), t, f, verbose)
                      IN  Outcome(d, IF d.exc = "" THEN "Descriptor" ELSE "Raised")

---------------------------------------------------------------------------
(* Special commands: parse_special_command, the command tables and the     *)
(* two flags of the module.                                                *)

\* the characters str.strip() removes, of the ones used here
Whitespace == {" ", "\t", "\n"}

RECURSIVE lstrip(_)
\* str.lstrip()
lstrip(text) ==
    IF text # <<>> /\ Head(text) \in Whitespace THEN lstrip(Tail(text)) ELSE text

RECURSIVE rstrip(_)
\* str.rstrip()
rstrip(text) ==
    IF text # <<>> /\ text[Len(text)] \in Whitespace
    THEN rstrip(SubSeq(text, 1, Len(text) - 1))
    ELSE text

\* str.strip()
strip(text) == rstrip(lstrip(text))

\* c in text
Contains(text, c) == \E k \in 1..Len(text) : text[k] = c

RECURSIVE Removed(_, _)
\* text.replace(c, '')
Removed(text, c) ==
    IF text = <<>> THEN <<>>
    ELSE (IF Head(text) = c THEN <<>> ELSE <<Head(text)>>) \o Removed(Tail(text), c)

\* text.partition(' '): what is before the first space, the space, what is
\* after it; the whole text and two empty strings when it has no space
partition(text) ==
    IF ~Contains(text, " ") THEN <<text, <<>>, <<>>>>
    ELSE LET k == CHOOSE n \in 1..Len(text) :
                      text[n] = " " /\ \A m \in 1..(n - 1) : text[m] # " "
         IN  <<SubSeq(text, 1, k - 1), <<" ">>, SubSeq(text, k + 1, Len(text))>>

\* a defect: the argument is returned as typed
parse_special_command_ArgKept(sql) ==
    LET parts == partition(sql)
    IN  [command |-> Removed(strip(parts[1]), "+"),
         verbose |-> Contains(parts[1], "+"),
         arg |-> parts[3]]

\* command, _, arg = sql.partition(' '); verbose = '+' in command;
\* command = command.strip().replace('+', ''); (command, verbose, arg.strip())
parse_special_command(sql) ==
    LET parts == partition(sql)
    IN  [command |-> Removed(strip(parts[1]), "+"),
         verbose |-> Contains(parts[1], "+"),
         arg |-> strip(parts[3])]

\* str.lower()
LowerText(text) == [k \in 1..Len(text) |-> lower(text[k])]

\* an executor that is a function of the module, and one that is a string
Fn(name) == [fn |-> name]

Sql(text) == [sql |-> text]

\* the key of a backslash command
Cmd(name) == <<BACKSLASH>> \o name

\* the table of the same name; to each key its executor, value[0]
CASE_SENSITIVE_COMMANDS ==
    (Cmd(<<"?">>) :> Fn("show_help"))
    @@ (Cmd(<<"c">>) :> Fn("dummy_command"))
    @@ (Cmd(<<"l">>) :> Sql("SELECT datname FROM pg_database;"))
    @@ (Cmd(<<"d">>) :> Fn("describe_table_details"))
    @@ (Cmd(<<"d", "n">>) :> Fn("list_schemas"))
    @@ (Cmd(<<"d", "u">>) :> Fn("list_roles"))
    @@ (Cmd(<<"x">>) :> Fn("expanded_output"))
    @@ (Cmd(<<"t", "i", "m", "i", "n", "g">>) :> Fn("toggle_timing"))
    @@ (Cmd(<<"d", "t">>) :> Fn("list_tables"))
    @@ (Cmd(<<"d", "i">>) :> Fn("list_indexes"))
    @@ (Cmd(<<"d", "v">>) :> Fn("list_views"))
    @@ (Cmd(<<"d", "s">>) :> Fn("list_sequences"))
    @@ (Cmd(<<"d", "f">>) :> Fn("list_functions"))
    @@ (Cmd(<<"d", "T">>) :> Fn("list_datatypes"))
    @@ (Cmd(<<"e">>) :> Fn("dummy_command"))
    @@ (Cmd(<<"e", "f">>) :> Fn("in_progress"))
    @@ (Cmd(<<"s", "f">>) :> Fn("in_progress"))
    @@ (Cmd(<<"m", "s", "a", "v", "e">>) :> Fn("save_macros"))
    @@ (Cmd(<<"m", "l", "o", "a", "d">>) :> Fn("load_macros"))
    @@ (Cmd(<<"c", "l", "e", "a", "r">>) :> Fn("clear_results"))
    @@ (Cmd(<<"c", "l", "e", "a", "r", "a", "l", "l">>) :> Fn("clear_all"))
    @@ (Cmd(<<"m", "l", "i", "s", "t">>) :> Fn("list_macros"))
    @@ (Cmd(<<"z">>) :> Fn("in_progress"))
    @@ (Cmd(<<"d", "o">>) :> Fn("in_progress"))

\* the table of the same name
NON_CASE_SENSITIVE_COMMANDS ==
    (<<"d", "e", "s", "c", "r", "i", "b", "e">> :> Fn("describe_table_details"))

\* the lookup found the command in neither table
KeyError == [raises |-> "KeyError"]

\* a defect: both tables are looked up under the lowercased command
command_executor_Folded(command) ==
    IF LowerText(command) \in DOMAIN CASE_SENSITIVE_COMMANDS
    THEN CASE_SENSITIVE_COMMANDS[LowerText(command)]
    ELSE IF LowerText(command) \in DOMAIN NON_CASE_SENSITIVE_COMMANDS
    THEN NON_CASE_SENSITIVE_COMMANDS[LowerText(command)]
    ELSE KeyError

\* the try statement of execute: CASE_SENSITIVE_COMMANDS[command][0], on
\* KeyError NON_CASE_SENSITIVE_COMMANDS[command.lower()][0], whose KeyError
\* leaves execute
command_executor(command) ==
    IF command \in DOMAIN CASE_SENSITIVE_COMMANDS
    THEN CASE_SENSITIVE_COMMANDS[command]
    ELSE IF LowerText(command) \in DOMAIN NON_CASE_SENSITIVE_COMMANDS
    THEN NON_CASE_SENSITIVE_COMMANDS[LowerText(command)]
    ELSE KeyError

\* a defect: the message tells the value the flag had
OnOff_Inverted(flag) == IF flag THEN "off." ELSE "on."

\* message += "on." if flag else "off."
OnOff(flag) == IF flag THEN "on." ELSE "off."

\* the two flags, as a record
Flags == [use_expanded_output |-> use_expanded_output,
          TIMING_ENABLED |-> TIMING_ENABLED]

\* no call before this one
NoPrior ==
    [executor |-> KeyError,
     before |-> [use_expanded_output |-> FALSE, TIMING_ENABLED |-> FALSE]]

\* no execute call is running
NoExecute ==
    [sql |-> <<>>, command |-> <<>>, verbose |-> FALSE, arg |-> <<>>,
     executor |-> KeyError, called |-> FALSE, queries |-> <<>>, result |-> "",
     message |-> <<>>, exc |-> "",
     before |-> [use_expanded_output |-> FALSE, TIMING_ENABLED |-> FALSE],
     prior |-> NoPrior]

\* the module as imported: both flags are False, nothing is executing
ExecuteIdle ==
    /\ use_expanded_output = FALSE
    /\ TIMING_ENABLED = FALSE
    /\ xpc = "idle"
    /\ xcall = NoExecute

---------------------------------------------------------------------------
(* describe_table_details, one describe_one_table_details call per step.   *)

\* no describe_one_table_details call yet
NoCall == [oid |-> 0, facts |-> GoneFacts, out |-> Outcome(Begun, "None")]

DescribeIdle ==
    /\ dpc = "idle"
    /\ dargs = [pattern |-> <<>>, verbose |-> FALSE]
    /\ rows = <<>>
    /\ results = <<>>
    /\ queries = <<>>
    /\ last = NoCall
    /\ error = ""

\* one element of the returned list: what kind of tuple it is, the relation
\* it is for (0 for none) and the pattern its status names (none: empty)
Result(kind, oid, named) == [kind |-> kind, oid |-> oid, named |-> named]

\* a defect: no relation, no result
NotFoundResult_Empty(pattern) == <<>>

\* [(None, None, None, 'Did not find any relation named %s.' % pattern)]
NotFoundResult(pattern) == <<Result("NotFoundPattern", 0, pattern)>>

\* describe_table_details(cur, p, v), up to the loop over the relations
\* found; the database fails the first query of the call, or does not
DescribeBegin(p, v, fails) ==
    /\ dargs' = [pattern |-> p, verbose |-> v]
    /\ queries' = IF p = <<>> THEN <<"list">> ELSE <<"resolve">>
    /\ IF fails
       THEN /\ rows' = <<>>
            /\ results' = <<>>
            /\ dpc' = "raised"
            /\ error' = "DatabaseError"
       ELSE /\ error' = ""
            /\ IF p = <<>>
               THEN /\ rows' = <<>>
                    /\ results' = <<Result("Listing", 0, <<>>)>>
                    /\ dpc' = "returned"
               ELSE /\ rows' = ResolveQuery(p)
                    /\ IF ~HasRows(Len(rows'))
                       THEN results' = NotFoundResult(p) /\ dpc' = "returned"
                       ELSE results' = <<>> /\ dpc' = "loop"
    /\ last' = NoCall

\* \d [pattern], called by itself
DescribeCall ==
    /\ dpc = "idle"
    /\ \E p \in DescribePatterns, v \in BOOLEAN, fails \in BOOLEAN :
        DescribeBegin(p, v, fails)
    /\ UNCHANGED <<patVars, execVars>>

\* results.append(describe_one_table_details(...)) for the next row
DescribeOne ==
    /\ dpc = "loop"
    /\ Len(results) < Len(rows)
    /\ last = NoCall
    /\ \E f \in LoopFacts :
        LET rel == rows[Len(results) + 1]
            out == describe_one_table_details(f, dargs.verbose)
        IN  /\ last' = [oid |-> rel.oid, facts |-> f, out |-> out]
            /\ error' = out.exc
            /\ IF out.exc # ""
               THEN dpc' = "raised" /\ UNCHANGED results
               ELSE /\ results' = Append(results, Result(out.kind, rel.oid, <<>>))
                    /\ UNCHANGED dpc
    /\ UNCHANGED <<dargs, rows, queries, patVars, execVars>>

\* the for statement takes the next row: the locals of the call before are gone
DescribeNext ==
    /\ dpc = "loop"
    /\ Len(results) < Len(rows)
    /\ last # NoCall
    /\ last' = NoCall
    /\ UNCHANGED <<dpc, dargs, rows, results, queries, error, patVars, execVars>>

\* return results
DescribeReturn ==
    /\ dpc = "loop"
    /\ Len(results) = Len(rows)
    /\ dpc' = "returned"
    /\ UNCHANGED <<dargs, rows, results, queries, last, error, patVars, execVars>>

\* the caller has the list, or the exception
DescribeEnd ==
    /\ dpc \in {"returned", "raised"}
    /\ dpc' = "idle"
    /\ dargs' = [pattern |-> <<>>, verbose |-> FALSE]
    /\ rows' = <<>>
    /\ results' = <<>>
    /\ queries' = <<>>
    /\ last' = NoCall
    /\ error' = ""
    /\ UNCHANGED <<patVars, execVars>>

InitDescribe == PatternIdle /\ DescribeIdle /\ ExecuteIdle

NextDescribe ==
    \/ DescribeCall
    \/ DescribeOne
    \/ DescribeNext
    \/ DescribeReturn
    \/ DescribeEnd

SpecDescribe == InitDescribe /\ [][NextDescribe]_vars

---------------------------------------------------------------------------
(* describe_one_table_details on its own, over more catalog answers than   *)
(* the loop of \d is run with.                                             *)

\* a reloptions string
Fillfactor ==
    <<"f", "i", "l", "l", "f", "a", "c", "t", "o", "r", "=", "7", "0">>

\* relations with storage options, in a tablespace of their own, or both
OptionFacts ==
    { [f EXCEPT !.reloptions = o, !.reltablespace = t] :
        f \in LiveFacts, o \in {<<>>, Fillfactor}, t \in {0, 16400} }

\* most rows the column query returns
MaxColumns == 2

\* relations with no column, one or more; their cells do not depend on
\* rules and triggers
ColumnFacts ==
    { [f EXCEPT !.ncols = n] :
        f \in {g \in LiveFacts : g.rules = <<>> /\ g.triggers = <<>>},
        n \in 0..MaxColumns }

\* the queries of a table's footer that return a list of rows
FooterQueries ==
    {"indexes", "checks", "fkeys", "refs", "inherits", "children"}

\* tables, materialized views and foreign tables whose footer queries return
\* a row or none, with at most one trigger, in a tablespace of their own or
\* not; there are no constraints without relchecks, no indexes without
\* relhasindex and no foreign keys without relhastriggers
FooterFacts ==
    { g \in { [f EXCEPT !.nindexes = n["indexes"], !.nchecks = n["checks"],
                        !.nfkeys = n["fkeys"], !.nrefs = n["refs"],
                        !.ninherits = n["inherits"],
                        !.nchildren = n["children"], !.reltablespace = t] :
                f \in {h \in LiveFacts : /\ h.relkind \in TableKinds
                                         /\ h.triggers \in {<<>>, <<"O">>}},
                n \in [FooterQueries -> {0, 1}],
                t \in {0, 16400} } :
        /\ g.nindexes > 0 => g.relhasindex
        /\ g.nchecks <= g.relchecks
        /\ (g.nfkeys > 0 \/ g.nrefs > 0) => g.relhastriggers }

\* most rows the rules query returns
MaxRules == 2

\* pg_rewrite.ev_enabled
EvEnabled == {"O", "D", "A", "R"}

\* relations with rules of every status, in any order; no triggers
RuleFacts ==
    { [f EXCEPT !.rules = r] :
        f \in {g \in LiveFacts : /\ g.relhasrules
                                 /\ g.rules = <<"O">>
                                 /\ g.triggers = <<>>},
        r \in SeqsUpTo(EvEnabled, MaxRules) \ {<<>>} }

\* most rows the index query of a table returns
MaxIndexes == 2

\* indexes, and tables with indexes, valid or not (indisvalid is false while
\* CREATE INDEX CONCURRENTLY runs and after it has failed); no rules, no
\* triggers
IndexFacts ==
    { [f EXCEPT !.indisvalid = b] :
        f \in {g \in LiveFacts : g.relkind = "i" /\ g.triggers = <<>>},
        b \in BOOLEAN }
    \cup
    { [f EXCEPT !.nindexes = n, !.indisvalid = b] :
        f \in {g \in LiveFacts : /\ g.relkind \in TableKinds
                                 /\ g.relhasindex
                                 /\ g.rules = <<>>
                                 /\ g.triggers = <<>>},
        n \in 1..MaxIndexes, b \in BOOLEAN }

Answers ==
    Facts \cup FailFacts \cup OptionFacts \cup ColumnFacts \cup FooterFacts
          \cup RuleFacts \cup IndexFacts

InitDescribeOne == PatternIdle /\ DescribeIdle /\ ExecuteIdle

\* describe_one_table_details(cur, schema_name, relation_name, oid, verbose)
DescribeOneCall ==
    /\ dpc = "idle"
    /\ \E f \in Answers, v \in BOOLEAN :
        /\ dargs' = [pattern |-> <<>>, verbose |-> v]
        /\ last' = [oid |-> pg_class[1].oid, facts |-> f,
                    out |-> describe_one_table_details(f, v)]
    /\ dpc' = "one"
    /\ UNCHANGED <<rows, results, queries, error, patVars, execVars>>

\* the caller has the tuple, or the exception
DescribeOneEnd ==
    /\ dpc = "one"
    /\ dpc' = "idle"
    /\ dargs' = [pattern |-> <<>>, verbose |-> FALSE]
    /\ last' = NoCall
    /\ UNCHANGED <<rows, results, queries, error, patVars, execVars>>

NextDescribeOne ==
    \/ DescribeOneCall
    \/ DescribeOneEnd

SpecDescribeOne == InitDescribeOne /\ [][NextDescribeOne]_vars

---------------------------------------------------------------------------
(* execute(cur, sql), for special commands that describe no relation, and  *)
(* the two places of main.py that set the flags of pgspecial.              *)

Describe == <<"d", "e", "s", "c", "r", "i", "b", "e">>

NoSuch == <<"n", "o", "s", "u", "c", "h">>

\* the command words typed: commands of both tables, with and without +, in
\* other letter case, with whitespace around them, and words of no table
CommandWords ==
    { Cmd(<<"d">>), Cmd(<<"d", "+">>), Cmd(<<"D">>), Cmd(<<"d", "\t">>),
      <<"\n">> \o Cmd(<<"d", "+">>), <<"+">> \o Cmd(<<"d">>),
      Cmd(<<"l">>), Cmd(<<"l", "+">>), Cmd(<<"L">>),
      Cmd(<<"x">>), Cmd(<<"x", "+">>),
      Cmd(<<"t", "i", "m", "i", "n", "g">>),
      Cmd(<<"?">>), Cmd(<<"c">>), Cmd(<<"z">>),
      Cmd(<<"d", "n">>), Cmd(<<"d", "n", "+">>), Cmd(<<"d", "u">>),
      Describe, Describe \o <<"+">>,
      <<"D", "E", "S", "C", "R", "I", "B", "E">>,
      <<"D", "e", "s", "c", "r", "i", "b", "e", "+">>,
      Cmd(<<"n", "o">>), <<"+">>, <<>> }

\* what is typed after the first space
RawArgs == { <<>>, NoSuch, <<" ">> \o NoSuch \o <<" ", "\t">> }

\* the inputs of execute
Statements ==
    CommandWords \cup {w \o <<" ">> \o a : w \in CommandWords, a \in RawArgs}

\* the functions of the tables that run one query and return its rows
ListExecutors == {"list_schemas", "list_roles"}

\* the functions of the tables that raise NotImplementedError
StubExecutors == {"dummy_command", "in_progress"}

\* the call once execute has parsed its input and looked the command up
Looked(sql) ==
    LET p == parse_special_command(sql)
    IN  [NoExecute EXCEPT !.sql = sql, !.command = p.command,
                          !.verbose = p.verbose, !.arg = p.arg,
                          !.executor = command_executor(p.command),
                          !.before = Flags, !.prior = xcall.prior]

\* the call ends with a return value
ExecuteReturned(call, result, message) ==
    /\ xpc' = "returned"
    /\ xcall' = [call EXCEPT !.result = result, !.message = message]

\* the call ends with an exception
ExecuteRaised(call, exception) ==
    /\ xpc' = "raised"
    /\ xcall' = [call EXCEPT !.exc = exception]

\* cur.execute of one query, which the database fails or answers with rows
\* (cur.description is set): [(None, cur, headers, cur.statusmessage)]
ExecuteQuery(call, query, fails) ==
    IF fails
    THEN ExecuteRaised([call EXCEPT !.queries = <<query>>], "DatabaseError")
    ELSE ExecuteReturned([call EXCEPT !.queries = <<query>>], "Rows", <<>>)

\* execute(cur, sql)
Execute ==
    /\ xpc = "idle"
    /\ dpc = "idle"
    /\ \E sql \in Statements, fails \in BOOLEAN :
        LET looked == Looked(sql)
            e == looked.executor
            call == [looked EXCEPT !.called = TRUE]
        IN  \/ /\ e = KeyError
               /\ ~fails
               /\ ExecuteRaised(looked, "KeyError")
               /\ UNCHANGED <<use_expanded_output, TIMING_ENABLED, descVars>>
            \/ /\ e # KeyError
               /\ "sql" \in DOMAIN e
               /\ ExecuteQuery(looked, e.sql, fails)
               /\ UNCHANGED <<use_expanded_output, TIMING_ENABLED, descVars>>
            \/ /\ e = Fn("expanded_output")
               /\ ~fails
               /\ use_expanded_output' = ~use_expanded_output
               /\ ExecuteReturned(call, "Message",
                      <<"Expanded display is ", OnOff(use_expanded_output')>>)
               /\ UNCHANGED <<TIMING_ENABLED, descVars>>
            \/ /\ e = Fn("toggle_timing")
               /\ ~fails
               /\ TIMING_ENABLED' = ~TIMING_ENABLED
               /\ ExecuteReturned(call, "Message",
                      <<"Timing is ", OnOff(TIMING_ENABLED')>>)
               /\ UNCHANGED <<use_expanded_output, descVars>>
            \/ /\ e = Fn("show_help")
               /\ ~fails
               /\ ExecuteReturned(call, "Help", <<>>)
               /\ UNCHANGED <<use_expanded_output, TIMING_ENABLED, descVars>>
            \/ /\ e \in {Fn(name) : name \in StubExecutors}
               /\ ~fails
               /\ ExecuteRaised(call, "NotImplementedError")
               /\ UNCHANGED <<use_expanded_output, TIMING_ENABLED, descVars>>
            \/ /\ e \in {Fn(name) : name \in ListExecutors}
               /\ ExecuteQuery(call, e.fn, fails)
               /\ UNCHANGED <<use_expanded_output, TIMING_ENABLED, descVars>>
            \/ /\ e = Fn("describe_table_details")
               /\ call.arg = <<>> \/ ~HasRows(Len(ResolveQuery(call.arg)))
               /\ DescribeBegin(call.arg, call.verbose, fails)
               /\ IF dpc' = "raised"
                  THEN ExecuteRaised([call EXCEPT !.queries = queries'], error')
                  ELSE ExecuteReturned([call EXCEPT !.queries = queries'],
                                       results'[1].kind, <<>>)
               /\ UNCHANGED <<use_expanded_output, TIMING_ENABLED>>
    /\ UNCHANGED patVars

\* the caller has the list, or the exception; what stays is which executor
\* the call looked up and the flags it began with, until the next call, the
\* next PGCli or the next rehash
ExecuteEnd ==
    /\ xpc \in {"returned", "raised"}
    /\ xpc' = "idle"
    /\ xcall' = [NoExecute EXCEPT
                    !.prior = [executor |-> xcall.executor, before |-> xcall.before]]
    /\ dpc' = "idle"
    /\ dargs' = [pattern |-> <<>>, verbose |-> FALSE]
    /\ rows' = <<>>
    /\ results' = <<>>
    /\ queries' = <<>>
    /\ last' = NoCall
    /\ error' = ""
    /\ UNCHANGED <<use_expanded_output, TIMING_ENABLED, patVars>>

\* PGCli.__init__, as cli() and pg() construct it between two calls of
\* execute: pgspecial.TIMING_ENABLED = c.getboolean('main', 'timing'), the
\* value of the configuration file; the other flag stays
PGCli ==
    /\ xpc = "idle"
    /\ \E timing \in BOOLEAN : TIMING_ENABLED' = timing
    /\ xcall' = [xcall EXCEPT
                    !.prior = [executor |-> Fn("PGCli"), before |-> Flags]]
    /\ UNCHANGED <<use_expanded_output, xpc, descVars, patVars>>

\* rehash(): reload(pgspecial) runs the module's statements again, both flags
\* are False; then main.pg constructs PGCli, which sets the timing of the
\* configuration file
rehash ==
    /\ xpc = "idle"
    /\ use_expanded_output' = FALSE
    /\ \E timing \in BOOLEAN : TIMING_ENABLED' = timing
    /\ xcall' = [xcall EXCEPT
                    !.prior = [executor |-> Fn("rehash"), before |-> Flags]]
    /\ UNCHANGED <<xpc, descVars, patVars>>

\* pgspecial as imported: both flags are False, nothing is executing
InitExecute == PatternIdle /\ DescribeIdle /\ ExecuteIdle

NextExecute ==
    \/ Execute
    \/ ExecuteEnd
    \/ PGCli
    \/ rehash

SpecExecute == InitExecute /\ [][NextExecute]_vars

---------------------------------------------------------------------------
(* Calls of sql_name_pattern, one loop iteration per step.                 *)

InitPattern == PatternIdle /\ DescribeIdle /\ ExecuteIdle

\* a caller compiles a pattern
Call ==
    /\ pc = "idle"
    /\ \E p \in Patterns : scan' = ScanInit(p)
    /\ pc' = "scan"
    /\ ret' = NoValue
    /\ hist' = NoValue
    /\ UNCHANGED <<descVars, execVars>>

\* a caller compiles the pattern of the call that just returned once more
Recall ==
    /\ pc = "done"
    /\ pc' = "scan"
    /\ scan' = ScanInit(scan.pattern)
    /\ ret' = NoValue
    /\ hist' = ret
    /\ UNCHANGED <<descVars, execVars>>

\* while i < pattern_len: one iteration
ScanStep ==
    /\ pc = "scan"
    /\ scan.i < Len(scan.pattern)
    /\ scan' = ScanStepBody(scan)
    /\ UNCHANGED <<pc, ret, hist>>
    /\ UNCHANGED <<descVars, execVars>>

\* the loop has ended: wrap and return
Return ==
    /\ pc = "scan"
    /\ ~(scan.i < Len(scan.pattern))
    /\ ret' = ScanReturn(scan)
    /\ pc' = "done"
    /\ UNCHANGED <<scan, hist>>
    /\ UNCHANGED <<descVars, execVars>>

\* the caller is done with the result; the locals are gone
Forget ==
    /\ pc = "done"
    /\ pc' = "idle"
    /\ scan' = NoLocals
    /\ ret' = NoValue
    /\ hist' = NoValue
    /\ UNCHANGED <<descVars, execVars>>

NextPattern ==
    \/ Call
    \/ Recall
    \/ ScanStep
    \/ Return
    \/ Forget

SpecPattern == InitPattern /\ [][NextPattern]_vars

\* a call that has begun runs on: the loop and the return are not suspended
SpecPatternLive ==
    SpecPattern /\ WF_vars(ScanStep) /\ WF_vars(Return)

---------------------------------------------------------------------------
(* Compilations of one pattern with other calls of the module between      *)
(* them, each call in one step.                                            *)

\* an earlier call: its pattern, what it returned, and what has run since
\* (another compilation, a toggle of a module flag, the same pattern again)
Earlier(p, r) ==
    [pattern |-> p, ret |-> r, other |-> FALSE, toggled |-> FALSE, again |-> FALSE]

NoEarlier == Earlier(<<>>, NoValue)

\* the patterns compiled between: one that ends inside quotes, one that
\* sets a schema, one that is escaped
OtherPatterns == { <<QUOTE, "a">>, <<"a", ".", "B">>, <<"$">> }

\* the patterns compiled twice: the longest ones of Alphabet are left to the
\* single compilations
TwicePatterns == TextsUpTo(MaxLen - 1) \cup LongPatterns

\* sql_name_pattern(p), from its entry to its return
Compile(p) ==
    /\ scan' = ScanLoop(ScanInit(p))
    /\ ret' = ScanReturn(scan')
    /\ pc' = "done"

\* a caller compiles a pattern: the call the later one is compared with
CompileFirst ==
    /\ pc = "idle"
    /\ \E p \in TwicePatterns : Compile(p) /\ hist' = Earlier(p, ret')
    /\ UNCHANGED <<descVars, execVars>>

\* another pattern is compiled
CompileOther ==
    /\ pc = "done"
    /\ ~hist.other /\ ~hist.toggled /\ ~hist.again
    /\ \E q \in OtherPatterns : Compile(q)
    /\ hist' = [hist EXCEPT !.other = TRUE]
    /\ UNCHANGED <<descVars, execVars>>

\* expanded_output() or toggle_timing() is called: a module flag changes
Toggle ==
    /\ pc = "done"
    /\ ~hist.toggled /\ ~hist.again
    /\ \/ use_expanded_output' = ~use_expanded_output /\ UNCHANGED TIMING_ENABLED
       \/ TIMING_ENABLED' = ~TIMING_ENABLED /\ UNCHANGED use_expanded_output
    /\ hist' = [hist EXCEPT !.toggled = TRUE]
    /\ UNCHANGED <<pc, scan, ret, descVars, xpc, xcall>>

\* the first pattern is compiled again
CompileAgain ==
    /\ pc = "done"
    /\ ~hist.again
    /\ Compile(hist.pattern)
    /\ hist' = [hist EXCEPT !.again = TRUE]
    /\ UNCHANGED <<descVars, execVars>>

\* the caller is done with the results; the flags stay as they are
CompileEnd ==
    /\ pc = "done"
    /\ hist.again
    /\ pc' = "idle"
    /\ scan' = NoLocals
    /\ ret' = NoValue
    /\ hist' = NoEarlier
    /\ UNCHANGED <<descVars, execVars>>

\* the module as imported, no call yet
InitCompile ==
    /\ pc = "idle"
    /\ scan = NoLocals
    /\ ret = NoValue
    /\ hist = NoEarlier
    /\ DescribeIdle
    /\ ExecuteIdle

NextCompile ==
    \/ CompileFirst
    \/ CompileOther
    \/ Toggle
    \/ CompileAgain
    \/ CompileEnd

SpecCompile == InitCompile /\ [][NextCompile]_vars

---------------------------------------------------------------------------
(* What the pattern compiler is expected to produce, stated on the text    *)
(* (section 4.1 of the design), independently of the scan.                 *)

RECURSIVE Roles(_, _, _)
\* the role of each character of text from position k on (1-based), q being
\* the quoting state there: "toggle" (a quote that opens or closes), "lit" and
\* "skip" (the two quotes of a doubled quote inside quotes), "quoted", "plain"
Roles(text, k, q) ==
    IF k > Len(text) THEN <<>>
    ELSE IF text[k] = QUOTE
    THEN IF q /\ k < Len(text) /\ text[k + 1] = QUOTE
         THEN <<"lit", "skip">> \o Roles(text, k + 2, q)
         ELSE <<"toggle">> \o Roles(text, k + 1, ~q)
    ELSE <<IF q THEN "quoted" ELSE "plain">> \o Roles(text, k + 1, q)

\* the positions of the unquoted dots of text
UnquotedDots(text) ==
    LET r == Roles(text, 1, FALSE)
    IN  {k \in 1..Len(text) : text[k] = "." /\ r[k] = "plain"}

\* what one character contributes to a regex source; dot is what an unquoted
\* dot contributes when the text is not split there
Emitted(c, role, dot) ==
    CASE role = "toggle" -> <<>>
      [] role = "skip" -> <<>>
      [] role = "lit" -> <<QUOTE>>
      [] role = "plain" ->
            IF isupper(c) THEN <<lower(c)>>
            ELSE IF c = "*" THEN <<".", "*">>
            ELSE IF c = "?" THEN <<".">>
            ELSE IF c = "$" THEN <<BACKSLASH, "$">>
            ELSE IF c = "." THEN dot
            ELSE <<c>>
      [] role = "quoted" ->
            IF c = "$" \/ c \in RegexMeta THEN <<BACKSLASH, c>> ELSE <<c>>

RECURSIVE EmittedFrom(_, _, _, _)
EmittedFrom(text, roles, k, dot) ==
    IF k > Len(text) THEN <<>>
    ELSE Emitted(text[k], roles[k], dot) \o EmittedFrom(text, roles, k + 1, dot)

\* the compiled form of a text: its characters' contributions, anchored;
\* a text that contributes nothing compiles to the empty string
CompiledWith(text, dot) ==
    LET e == EmittedFrom(text, Roles(text, 1, FALSE), 1, dot)
    IN  IF e = <<>> THEN <<>> ELSE Anchor(e)

\* the compiled form of a text with no unquoted dot
CompiledForm(text) == CompiledWith(text, <<>>)

\* the readings of "compiled" for an unquoted dot inside the text: it
\* contributes nothing, itself, or itself after a backslash
DotReadings == {<<>>, <<".">>, <<BACKSLASH, ".">>}

MaxOf(S) == CHOOSE m \in S : \A x \in S : x <= m

\* the last unquoted dot of text (text has one)
LastDot(text) == MaxOf(UnquotedDots(text))

\* the unquoted dot before the last one, 0 when there is none
PrevDot(text) ==
    LET before == {k \in UnquotedDots(text) : k < LastDot(text)}
    IN  IF before = {} THEN 0 ELSE MaxOf(before)

\* the pair of sources as a function of the text alone: no schema without
\* an unquoted dot; with one, the segment before the last unquoted dot and
\* the segment after it
FromText(p) ==
    IF UnquotedDots(p) = {}
    THEN <<None, CompiledForm(p)>>
    ELSE <<CompiledForm(SubSeq(p, PrevDot(p) + 1, LastDot(p) - 1)),
           CompiledForm(SubSeq(p, LastDot(p) + 1, Len(p)))>>

Returned == pc = "done"

---------------------------------------------------------------------------
(* Claims about sql_name_pattern, checked under SpecPattern.               *)

\* C6, as stated: with an unquoted dot in the pattern, the schema source is
\* the compiled form of everything before the last unquoted dot (earlier
\* dot-separated segments included) and the name source the compiled form of
\* everything after it. (Whatever an earlier unquoted dot is taken to
\* contribute to that compiled form.)
C6_SchemaIsWholePrefix ==
    (Returned /\ UnquotedDots(scan.pattern) # {}) =>
        LET p == scan.pattern
            d == LastDot(p)
        IN  /\ \E dot \in DotReadings :
                   ret[1] = CompiledWith(SubSeq(p, 1, d - 1), dot)
            /\ ret[2] = CompiledForm(SubSeq(p, d + 1, Len(p)))

\* C6, amended: with an unquoted dot in the pattern, the name source is the
\* compiled form of everything after the last unquoted dot, and the schema
\* source is the compiled form of the segment between the previous unquoted
\* dot (or the start of the pattern) and the last one; what precedes the
\* previous unquoted dot is in neither.
C6_SplitAtLastDot ==
    (Returned /\ UnquotedDots(scan.pattern) # {}) =>
        LET p == scan.pattern
            d == LastDot(p)
        IN  /\ ret[1] = CompiledForm(SubSeq(p, PrevDot(p) + 1, d - 1))
            /\ ret[2] = CompiledForm(SubSeq(p, d + 1, Len(p)))

\* a pattern of three non-empty segments has been compiled
C6_Witness ==
    /\ Returned
    /\ Cardinality(UnquotedDots(scan.pattern)) >= 2
    /\ PrevDot(scan.pattern) > 1
    /\ ret[1] # <<>>
    /\ ret[2] # <<>>

\* C7, as stated: the empty pattern compiles to (None, None).
C7_EmptyIsNoneNone ==
    (Returned /\ scan.pattern = <<>>) => ret = <<None, None>>

\* C7, amended: the empty pattern compiles to (None, ''): the schema filter
\* is None and the name filter is the empty string, both false to the
\* callers' truth tests, so neither filters.
C7_EmptyIsNoneEmpty ==
    (Returned /\ scan.pattern = <<>>) => ret = <<None, <<>>>>

\* the empty pattern has been compiled
C7_Witness == Returned /\ scan.pattern = <<>> /\ scan.i = 0

\* the two sources the doctest expects: ^(foo.*)$ and ^(b"\$ar\*)$
DocSchema == <<"^", "(", "f", "o", "o", ".", "*", ")", "$">>

DocName ==
    <<"^", "(", "b", QUOTE, BACKSLASH, "$", "a", "r", BACKSLASH, "*", ")", "$">>

\* C8: foo*."b""$ar*" compiles to schema ^(foo.*)$ and name ^(b"\$ar\*)$.
C8_DocExample ==
    (Returned /\ scan.pattern = DocPattern) => ret = <<DocSchema, DocName>>

\* the doctest's pattern has been compiled
C8_Witness == Returned /\ scan.pattern = DocPattern /\ ret # NoValue

\* C9: a pattern with no unquoted dot compiles to an absent (None) schema
\* source, and its name source is the compiled form of the whole pattern.
C9_NoDotNoSchema ==
    (Returned /\ UnquotedDots(scan.pattern) = {}) =>
        /\ ret[1] = None
        /\ ret[2] = CompiledForm(scan.pattern)

\* a pattern whose only dot is quoted has been compiled
C9_Witness ==
    /\ Returned
    /\ UnquotedDots(scan.pattern) = {}
    /\ \E k \in 1..Len(scan.pattern) : scan.pattern[k] = "."
    /\ ret[2] # <<>>

\* C10: what a compilation returns is a function of the text of its pattern
\* alone, and a second compilation of a pattern returns what the first
\* returned, whatever was compiled between the two and whatever the
\* module's flags have become. Checked under SpecCompile.
C10_SameTwice ==
    Returned =>
        /\ ret = FromText(scan.pattern)
        /\ scan.pattern = hist.pattern => ret = hist.ret

\* a pattern with a letter that ends inside quotes has been compiled a second
\* time, after another pattern was compiled and the expanded display was
\* switched on
C10_Witness ==
    /\ Returned
    /\ hist.again /\ hist.other /\ hist.toggled
    /\ use_expanded_output
    /\ scan.pattern = hist.pattern
    /\ scan.inquotes
    /\ \E k \in 1..Len(scan.pattern) : scan.pattern[k] = "B"

---------------------------------------------------------------------------
(* Claims about \d, checked under SpecDescribe.                            *)

Finished == dpc \in {"returned", "raised"}

\* the latest describe_one_table_details call of the running \d
Described == last # NoCall

\* the database has failed a query of the latest describe_one_table_details
QueryFailed ==
    /\ Described
    /\ \E n \in 1..Len(last.out.queries) : last.out.queries[n] = last.facts.fails

\* the positions of status that hold a line of the trigger query's row j
TriggerLines(status, j) ==
    {n \in 1..Len(status) : status[n].text = "trigger" /\ status[n].row = j}

\* the positions of status that hold a heading of the trigger section
TriggerHeadings(status) ==
    {n \in 1..Len(status) :
        \E c \in 1..4 : status[n].text = TriggerHeading[c] /\ status[n].row = 0}

\* the heading a line of status stands under: the nearest one before it
HeadingOf(status, n) ==
    LET before == {h \in TriggerHeadings(status) : h < n}
    IN  IF before = {} THEN "" ELSE status[MaxOf(before)].text

\* the category a status flag belongs to (1..4)
CategoryOf(tgenabled) ==
    CASE tgenabled \in {"O", "true"} -> 1
      [] tgenabled \in {"D", "false"} -> 2
      [] tgenabled = "A" -> 3
      [] tgenabled = "R" -> 4

\* C1: a non-empty pattern that resolves to no relation gives the one-entry
\* list [NotFound(pattern)], never the empty list, and the resolution query is
\* the only query executed: no relation is described.
C1_NotFoundPattern ==
    (dpc = "returned" /\ dargs.pattern # <<>> /\ rows = <<>>) =>
        /\ results = <<Result("NotFoundPattern", 0, dargs.pattern)>>
        /\ queries = <<"resolve">>
        /\ ~Described

\* \d nosuch has returned
C1_Witness ==
    /\ dpc = "returned"
    /\ dargs.pattern = <<"n", "o", "s", "u", "c", "h">>
    /\ rows = <<>>
    /\ Len(results) = 1

\* C2: a \d whose pattern resolves to n >= 1 relations, and whose queries the
\* database answers, returns n results, the k-th for the k-th resolved
\* relation.
C2_OneResultPerRelation ==
    (Finished /\ rows # <<>> /\ ~QueryFailed) =>
        /\ dpc = "returned"
        /\ Len(results) = Len(rows)
        /\ \A k \in 1..Len(rows) : results[k].oid = rows[k].oid

\* C3: a relation whose flags row is gone gives NotFound(oid); the flags
\* query is the only query executed for it, and nothing is raised.
C3_GoneRelation ==
    (Described /\ ~last.facts.hasrow) =>
        /\ last.out.kind = "NotFoundOid"
        /\ last.out.queries = <<"flags">>
        /\ last.out.exc = ""
        /\ dpc # "raised"
        /\ results[Len(results)] = Result("NotFoundOid", last.oid, <<>>)

\* the second of two relations was gone when it was described
C3_Witness ==
    /\ Described
    /\ ~last.facts.hasrow
    /\ Len(rows) >= 2
    /\ Len(results) = 2
    /\ last.oid = rows[2].oid

\* C4: every row of the trigger query has exactly one line in the
\* descriptor, under the heading of its own status flag, and the headings
\* come in the order enabled, disabled, always, replica only.
C4_TriggerBuckets ==
    (Described /\ last.out.kind = "Descriptor" /\ last.facts.relhastriggers) =>
        LET status == last.out.status
            tg == last.facts.triggers
        IN  /\ \A j \in 1..Len(tg) :
                /\ Cardinality(TriggerLines(status, j)) = 1
                /\ \A n \in TriggerLines(status, j) :
                       HeadingOf(status, n) = TriggerHeading[CategoryOf(tg[j])]
            /\ \A m, n \in TriggerHeadings(status) :
                   m < n => \E a, b \in 1..4 :
                               /\ a < b
                               /\ status[m].text = TriggerHeading[a]
                               /\ status[n].text = TriggerHeading[b]

\* C5: a relation without triggers (hastriggers false) is described without
\* the trigger query and without any line or heading of a trigger section.
C5_NoTriggerSection ==
    (Described /\ last.facts.hasrow /\ ~last.facts.relhastriggers) =>
        /\ \A n \in 1..Len(last.out.queries) : last.out.queries[n] # "triggers"
        /\ TriggerHeadings(last.out.status) = {}
        /\ \A n \in 1..Len(last.out.status) : last.out.status[n].text # "trigger"

\* a table with indexes and no triggers has been described, verbosely
C5_Witness ==
    /\ Described
    /\ last.out.kind = "Descriptor"
    /\ last.facts.relkind = "r"
    /\ last.facts.relhasindex
    /\ ~last.facts.relhastriggers
    /\ dargs.verbose
    /\ \E n \in 1..Len(last.out.queries) : last.out.queries[n] = "indexes"

---------------------------------------------------------------------------
(* Further claims about sql_name_pattern.                                  *)

\* the number of double quotes of text
RECURSIVE QuoteCount(_)
QuoteCount(text) ==
    IF text = <<>> THEN 0
    ELSE (IF Head(text) = QUOTE THEN 1 ELSE 0) + QuoteCount(Tail(text))

\* C11: for every pattern, also one with an odd number of double quotes, the
\* scan never reads past the end, every iteration moves forward over one or
\* two characters it has not consumed before, the call comes to its return,
\* and what it returns is a (schema, name) pair.
C11_Terminates ==
    /\ [](pc = "scan" => scan.i \in 0..Len(scan.pattern))
    /\ [][(pc = "scan" /\ pc' = "scan") =>
            /\ scan'.pattern = scan.pattern
            /\ scan'.i > scan.i
            /\ scan'.i <= Len(scan.pattern)]_vars
    /\ [](pc = "done" => (ret # NoValue /\ Len(ret) = 2))
    /\ ((pc = "scan") ~> (pc = "done"))

\* a pattern with an odd number of quotes has been compiled to its end
C11_Witness ==
    /\ Returned
    /\ QuoteCount(scan.pattern) % 2 = 1
    /\ scan.i = Len(scan.pattern)
    /\ scan.inquotes

---------------------------------------------------------------------------
(* Claims about describe_one_table_details, checked under SpecDescribeOne. *)

\* a descriptor has been returned for a relation
DescriptorOf == Described /\ last.out.kind = "Descriptor"

\* the positions of status that hold a line or heading with the text
LinesOf(status, text) == {n \in 1..Len(status) : status[n].text = text}

\* C12: the descriptor has an Options section exactly when verbose is set
\* and the relation's reloptions string is not empty; the section comes last
\* and shows that string.
C12_OptionsSection ==
    DescriptorOf =>
        LET status == last.out.status
            options == LinesOf(status, "Options:")
        IN  /\ (options # {}) <=> (dargs.verbose /\ last.facts.reloptions # <<>>)
            /\ \A n \in options :
                   /\ n = Len(status)
                   /\ status[n].value = Text(last.facts.reloptions)

\* a sequence whose flags row and current-value row were found
SequenceOf ==
    /\ Described
    /\ last.facts.hasrow
    /\ last.facts.relkind = "S"

\* C13: a sequence is described without an exception whether or not a
\* column owns it, and the descriptor has the line "Owned by" exactly when
\* the owner query returns a row (the database answering every query).
C13_SequenceOwner ==
    (SequenceOf /\ last.facts.seqrow /\ ~QueryFailed) =>
        /\ last.out.exc = ""
        /\ last.out.kind = "Descriptor"
        /\ (LinesOf(last.out.status, "Owned by:") # {}) <=> (last.facts.nowner > 0)

\* C14: a sequence whose current-value row is absent is described all the
\* same: the column query and the owner query are executed and a descriptor
\* is returned (the database answering every query).
C14_SequenceStateUnavailable ==
    (SequenceOf /\ ~last.facts.seqrow /\ ~QueryFailed) =>
        /\ last.out.exc = ""
        /\ last.out.kind = "Descriptor"
        /\ \E n \in 1..Len(last.out.queries) : last.out.queries[n] = "columns"
        /\ \E n \in 1..Len(last.out.queries) : last.out.queries[n] = "seqowner"

\* C16: every row of an index's descriptor has as many cells as there are
\* headers, none of them a modifier, and its cell under "Definition" is the
\* index definition of the column.
C16_IndexCells ==
    (DescriptorOf /\ last.facts.relkind = "i") =>
        LET headers == last.out.headers
            cells == last.out.cells
        IN  /\ Len(cells) = last.facts.ncols
            /\ \E h \in 1..Len(headers) : headers[h] = "Definition"
            /\ \A i \in 1..Len(cells) :
                   /\ Len(cells[i]) = Len(headers)
                   /\ \A h \in 1..Len(cells[i]) :
                          /\ cells[i][h] # "modifier"
                          /\ (headers[h] = "Definition") <=> (cells[i][h] = "indexdef")

\* C17: a view or materialized view with hasrules is described without an
\* exception, verbose or not, and its descriptor lists under "Rules:" each
\* row of the rules query (the rules other than _RETURN) once (the database
\* answering every query).
C17_ViewRules ==
    (Described /\ last.facts.hasrow /\ last.facts.relkind \in {"v", "m"}
               /\ last.facts.relhasrules /\ ~QueryFailed) =>
        LET status == last.out.status
            rules == last.facts.rules
        IN  /\ last.out.exc = ""
            /\ last.out.kind = "Descriptor"
            /\ (LinesOf(status, "Rules:") # {}) <=> (rules # <<>>)
            /\ \A j \in 1..Len(rules) :
                   Cardinality({n \in LinesOf(status, "rule") : status[n].row = j}) = 1

\* C18: the view definition is queried, and the descriptor has the section
\* "View definition", only when the relation is a view or a materialized
\* view and verbose is set; and then they are, if the database answers the
\* queries.
C18_ViewDefinition ==
    (Described /\ last.facts.hasrow) =>
        LET wanted == last.facts.relkind \in {"v", "m"} /\ dargs.verbose
            queried == \E n \in 1..Len(last.out.queries) :
                          last.out.queries[n] = "viewdef"
            section == LinesOf(last.out.status, "View definition:") # {}
        IN  /\ queried => wanted
            /\ section => wanted
            /\ (wanted /\ ~QueryFailed) => (queried /\ section)

\* a view has been described verbosely, with its definition
C18_Witness ==
    /\ DescriptorOf
    /\ last.facts.relkind = "v"
    /\ dargs.verbose
    /\ last.out.queries = <<"flags", "columns", "viewdef">>
    /\ LinesOf(last.out.status, "View definition:") = {1}

\* the section a heading or line of status belongs to
SectionOf(text) ==
    CASE text \in {"Indexes:", "index", " INVALID"} -> "Indexes"
      [] text \in {"Check constraints:", "check"} -> "Check constraints"
      [] text \in {"Foreign-key constraints:", "fkey"} -> "Foreign-key constraints"
      [] text \in {"Referenced by:", "ref"} -> "Referenced by"
      [] text \in {"Rules:", "rule"} -> "Rules"
      [] text = "View definition:" -> "View definition"
      [] text = "trigger" -> "Triggers"
      [] text \in {TriggerHeading[c] : c \in 1..4} -> "Triggers"
      [] text = "Server:" -> "Server"
      [] text \in {"Inherits", "inherit"} -> "Inherits"
      [] text \in {"Child tables", "child", "Number of child tables:"} -> "Child tables"
      [] text = "Has OIDs:" -> "Has OIDs"
      [] text = "Options:" -> "Options"
      [] OTHER -> "none"

\* the place of a section in an order, 0 for a section the order leaves out
PlaceIn(order, section) ==
    IF \E k \in 1..Len(order) : order[k] = section
    THEN CHOOSE k \in 1..Len(order) : order[k] = section
    ELSE 0

\* no entry of status stands before an entry of a section earlier in order
Ordered(status, order) ==
    \A m, n \in 1..Len(status) :
        LET a == PlaceIn(order, SectionOf(status[m].text))
            b == PlaceIn(order, SectionOf(status[n].text))
        IN  (m < n /\ a > 0 /\ b > 0) => a <= b

\* the order of the design's section 4.3: the triggers after the server and
\* the parents and children
ClaimedOrder ==
    <<"Indexes", "Check constraints", "Foreign-key constraints", "Referenced by",
      "Rules", "Server", "Inherits", "Child tables", "Triggers", "Options">>

\* the triggers before the server and the parents and children
BuiltOrder ==
    <<"Indexes", "Check constraints", "Foreign-key constraints", "Referenced by",
      "Rules", "Triggers", "Server", "Inherits", "Child tables", "Has OIDs",
      "Options">>

\* a table, materialized view or foreign table has been described, to the
\* end or to an exception
TableLikeOf ==
    /\ Described
    /\ last.facts.hasrow
    /\ last.facts.relkind \in TableKinds

\* C19 as stated: the footer sections of a table-like relation come in the
\* order indexes, checks, foreign keys, references, rules, server, parents
\* and children, triggers, options.
C19_ClaimedOrder == TableLikeOf => Ordered(last.out.status, ClaimedOrder)

\* C19: the footer sections of a table-like relation come in the order
\* indexes, checks, foreign keys, references, rules, triggers, server,
\* parents, children, OIDs, options: the triggers stand before the server
\* line and the parents and children.
C19_BuiltOrder == TableLikeOf => Ordered(last.out.status, BuiltOrder)

\* a table with an index, a trigger, a parent and a child has been described
\* verbosely, down to its options
C19_Witness ==
    /\ TableLikeOf
    /\ last.out.kind = "Descriptor"
    /\ \A text \in {"index", "trigger", "inherit", "child", "Has OIDs:", "Options:"} :
           LinesOf(last.out.status, text) # {}

---------------------------------------------------------------------------
(* Further claims about \d, checked under SpecDescribe.                    *)

\* C15: the relations a pattern resolves to match its schema regex when it
\* has one and are visible when it has none, and match its name regex when
\* it has one.
C15_VisibleUnlessSchema ==
    (dpc # "idle" /\ dargs.pattern # <<>>) =>
        LET compiled == sql_name_pattern(dargs.pattern)
        IN  \A k \in 1..Len(rows) :
                /\ IF Truthy(compiled[1])
                   THEN RegexMatch(compiled[1], rows[k].nspname)
                   ELSE rows[k].visible
                /\ Truthy(compiled[2]) => RegexMatch(compiled[2], rows[k].relname)

\* C20: when a query of a \d call fails, that query is the last one of the
\* call, the call ends there without a list of results, and the exception
\* that reaches the caller is the database's; the call does nothing more.
C20_QueryFailure ==
    /\ [](QueryFailed =>
            /\ last.out.queries[Len(last.out.queries)] = last.facts.fails
            /\ last.out.kind = "Raised"
            /\ last.out.exc = "DatabaseError"
            /\ dpc \in {"raised", "one"})
    /\ [](dpc = "raised" => (error # "" /\ (Described => error = last.out.exc)))
    /\ []((dpc = "raised" /\ ~Described) =>
            (error = "DatabaseError" /\ Len(queries) = 1 /\ results = <<>>))
    /\ [][dpc = "raised" =>
            (dpc' = "idle" /\ results' = <<>> /\ last' = NoCall)]_vars

\* the trigger query of the second relation of \d has failed, after the
\* first relation was described
C20_Witness ==
    /\ dpc = "raised"
    /\ Len(rows) >= 2
    /\ Len(results) = 1
    /\ last.facts.fails = "triggers"
    /\ last.out.queries[Len(last.out.queries)] = "triggers"
    /\ error = "DatabaseError"

---------------------------------------------------------------------------
(* More claims about sql_name_pattern, checked under SpecPattern.          *)

\* the iteration about to run reads the character c
Reading(c) ==
    /\ pc = "scan"
    /\ scan.i < Len(scan.pattern)
    /\ scan.pattern[scan.i + 1] = c

\* text holds the character c
Holds(text, c) == \E k \in 1..Len(text) : text[k] = c

\* C22: every unquoted dot overwrites the schema accumulator with the segment
\* scanned since the previous dot and empties the name accumulator; so, for
\* a pattern with two or more unquoted dots, the schema source is the compiled
\* form of the segment between the last two unquoted dots, the name source
\* the compiled form of the segment after the last one, and the segments
\* before are in neither.
C22_LastTwoSegments ==
    /\ [][(Reading(".") /\ ~scan.inquotes /\ pc' = "scan") =>
              /\ scan'.schema = scan.relname
              /\ scan'.relname = <<>>]_vars
    /\ []((Returned /\ Cardinality(UnquotedDots(scan.pattern)) >= 2) =>
              LET p == scan.pattern
              IN  /\ ret[1] = CompiledForm(SubSeq(p, PrevDot(p) + 1, LastDot(p) - 1))
                  /\ ret[2] = CompiledForm(SubSeq(p, LastDot(p) + 1, Len(p))))

\* a pattern of three segments has been compiled, and the letter that is its
\* first segment is in neither source
C22_Witness ==
    /\ Returned
    /\ Cardinality(UnquotedDots(scan.pattern)) >= 2
    /\ PrevDot(scan.pattern) = 2
    /\ scan.pattern[1] = "a"
    /\ scan.schema # None
    /\ ret[1] # <<>> /\ ~Holds(ret[1], "a")
    /\ ret[2] # <<>> /\ ~Holds(ret[2], "a")

\* text is ^( ... )$
Anchored(text) ==
    /\ Len(text) >= 4
    /\ SubSeq(text, 1, 2) = <<"^", "(">>
    /\ SubSeq(text, Len(text) - 1, Len(text)) = <<")", "$">>

\* a returned source that is a non-empty string has the prefix and the suffix
NoBareSource ==
    \A k \in 1..2 : (ret[k] # None /\ ret[k] # <<>>) => Anchored(ret[k])

\* C23, as stated: at the end of the scan the name source is the name
\* accumulator wrapped as ^(...)$ whenever it is non-empty, the schema source
\* is the schema accumulator wrapped as ^(...)$ whenever an unquoted dot has
\* set it (an empty segment, as in .foo, included), and no returned source is
\* a non-empty string without the prefix and the suffix.
C23_WrappedWhenSet ==
    Returned =>
        /\ scan.relname # <<>> => ret[2] = Anchor(scan.relname)
        /\ scan.schema # None => ret[1] = Anchor(scan.schema)
        /\ NoBareSource

\* C23, amended: the name source is the name accumulator wrapped as ^(...)$
\* when it is non-empty and the empty string otherwise; the schema source is
\* the schema accumulator wrapped as ^(...)$ when an unquoted dot has set it
\* to a non-empty segment, the empty string (not wrapped) when the segment
\* was empty, as in .foo, and None when there was no unquoted dot; no
\* returned source is a non-empty string without the prefix and the suffix.
C23_WrappedWhenNonEmpty ==
    Returned =>
        /\ ret[2] = IF scan.relname # <<>> THEN Anchor(scan.relname) ELSE <<>>
        /\ ret[1] = IF scan.schema = None THEN None
                    ELSE IF scan.schema = <<>> THEN <<>>
                    ELSE Anchor(scan.schema)
        /\ NoBareSource

\* a pattern that begins with an unquoted dot and goes on with a name has
\* been compiled: the schema was set, to an empty segment
C23_Witness ==
    /\ Returned
    /\ Len(scan.pattern) >= 2
    /\ scan.pattern[1] = "."
    /\ scan.schema = <<>>
    /\ Anchored(ret[2])

\* the iteration about to run reads a quote that is inside quotes and is
\* immediately followed by another quote
ReadingDoubledQuote ==
    /\ Reading(QUOTE)
    /\ scan.inquotes
    /\ scan.i + 2 <= Len(scan.pattern)
    /\ scan.pattern[scan.i + 2] = QUOTE

\* C24: an iteration that reads a double quote toggles inquotes, consumes
\* that one character and emits nothing (neither accumulator changes); except
\* that inside quotes a double quote immediately followed by another one
\* emits exactly one literal double quote, consumes both characters and
\* leaves inquotes true.
C24_QuoteToggles ==
    [][(Reading(QUOTE) /\ pc' = "scan") =>
          /\ scan'.schema = scan.schema
          /\ scan'.pattern = scan.pattern
          /\ IF ReadingDoubledQuote
             THEN /\ scan'.relname = scan.relname \o <<QUOTE>>
                  /\ scan'.i = scan.i + 2
                  /\ scan'.inquotes
             ELSE /\ scan'.relname = scan.relname
                  /\ scan'.i = scan.i + 1
                  /\ scan'.inquotes = ~scan.inquotes]_vars

\* the scan has just consumed a doubled quote inside quotes, after a letter
C24_Witness ==
    /\ pc = "scan"
    /\ scan.inquotes
    /\ scan.i >= 4
    /\ scan.pattern[scan.i] = QUOTE
    /\ scan.pattern[scan.i - 1] = QUOTE
    /\ Len(scan.relname) >= 2
    /\ scan.relname[Len(scan.relname)] = QUOTE

\* the iteration that runs from this state leaves the schema accumulator
\* alone and appends text to the name accumulator
Emits(text) ==
    /\ scan'.relname = scan.relname \o text
    /\ scan'.schema = scan.schema

\* C25: outside quotes an uppercase letter is emitted as its lowercase
\* letter, * as .* and ? as a single . ; inside quotes a letter is emitted in
\* its own case, and *, ? and . are emitted as themselves (after a
\* backslash), never as a wildcard and never as the schema separator.
C25_FoldAndWildcards ==
    [][(pc = "scan" /\ scan.i < Len(scan.pattern) /\ pc' = "scan") =>
          LET c == scan.pattern[scan.i + 1]
          IN  /\ (~scan.inquotes /\ isupper(c)) => Emits(<<lower(c)>>)
              /\ (~scan.inquotes /\ c = "*") => Emits(<<".", "*">>)
              /\ (~scan.inquotes /\ c = "?") => Emits(<<".">>)
              /\ (scan.inquotes /\ (isupper(c) \/ Holds(LowerSeq, c))) => Emits(<<c>>)
              /\ (scan.inquotes /\ c \in {"*", "?", "."}) => Emits(<<BACKSLASH, c>>)]_vars

\* B"B? has been scanned: a folded letter, then a quoted letter in its own
\* case and a quoted question mark
C25_Witness ==
    /\ pc = "scan"
    /\ scan.inquotes
    /\ scan.i = Len(scan.pattern)
    /\ scan.pattern = <<"B", QUOTE, "B", "?">>
    /\ scan.relname = <<"b", "B", BACKSLASH, "?">>

RECURSIVE Escaped(_)
\* text with a backslash before each of its $ and regex metacharacters
Escaped(text) ==
    IF text = <<>> THEN <<>>
    ELSE (IF Head(text) = "$" \/ Head(text) \in RegexMeta
          THEN <<BACKSLASH, Head(text)>>
          ELSE <<Head(text)>>) \o Escaped(Tail(text))

\* the pattern is one quoted text: a quote, characters other than quotes (at
\* least one), a quote
WhollyQuoted(p) ==
    /\ Len(p) >= 3
    /\ p[1] = QUOTE
    /\ p[Len(p)] = QUOTE
    /\ ~Holds(SubSeq(p, 2, Len(p) - 1), QUOTE)

\* the pattern is unquoted text of $ and lowercase letters, with a $ in it
DollarsAndLetters(p) ==
    /\ Holds(p, "$")
    /\ \A k \in 1..Len(p) : p[k] = "$" \/ Holds(LowerSeq, p[k])

RECURSIVE LiteralDollars(_, _)
\* every $ of the regex re, from position i on, is a literal: read from the
\* left, a backslash takes the character after it, and no $ is left over
LiteralDollars(re, i) ==
    IF i > Len(re) THEN TRUE
    ELSE IF re[i] = BACKSLASH THEN LiteralDollars(re, i + 2)
    ELSE re[i] # "$" /\ LiteralDollars(re, i + 1)

\* what a source has between ^( and )$
Body(source) == SubSeq(source, 3, Len(source) - 2)

\* names the catalog might hold: of a backslash, a $ and a letter
ProbeNames ==
    LET chars == {BACKSLASH, "$", "a"}
        one == {<<c>> : c \in chars}
        two == {t \o u : t \in one, u \in one}
    IN  one \cup two \cup {t \o u : t \in two, u \in one}

\* C26: an iteration that reads a $, inside or outside quotes, emits one
\* backslash and the $; an iteration that reads, inside quotes, one of the
\* metacharacters | * + ? ( ) [ ] { } . ^ \ emits one backslash and the
\* character; so that each such character matches literally: the source
\* compiled from a quoted text, or from unquoted text of $ and letters, is
\* that text with one backslash before each such character and matches it,
\* and in every source returned every $ of the pattern is a literal $ of
\* the regex, so that a name matched by a source that PostgreSQL accepts
\* holds a $.
C26_MatchesLiterally ==
    /\ [][(pc = "scan" /\ scan.i < Len(scan.pattern) /\ pc' = "scan") =>
              LET c == scan.pattern[scan.i + 1]
              IN  /\ c = "$" => Emits(<<BACKSLASH, "$">>)
                  /\ (scan.inquotes /\ c \in RegexMeta) => Emits(<<BACKSLASH, c>>)]_vars
    /\ []((Returned /\ WhollyQuoted(scan.pattern)) =>
              LET text == SubSeq(scan.pattern, 2, Len(scan.pattern) - 1)
              IN  /\ ret[2] = Anchor(Escaped(text))
                  /\ RegexMatch(ret[2], text))
    /\ []((Returned /\ DollarsAndLetters(scan.pattern)) =>
              /\ ret[2] = Anchor(Escaped(scan.pattern))
              /\ RegexMatch(ret[2], scan.pattern))
    /\ [](Returned =>
              /\ Truthy(ret[1]) => LiteralDollars(Body(ret[1]), 1)
              /\ Truthy(ret[2]) => LiteralDollars(Body(ret[2]), 1))
    /\ []((/\ Returned
           /\ UnquotedDots(scan.pattern) = {}
           /\ Holds(scan.pattern, "$")
           /\ ~RegexError(Body(ret[2]))) =>
              \A name \in ProbeNames : RegexMatch(ret[2], name) => Holds(name, "$"))

---------------------------------------------------------------------------
(* More claims about describe_one_table_details, checked under             *)
(* SpecDescribeOne.                                                        *)

\* the positions of status that hold a heading of the rules section
RuleHeadings(status) ==
    {n \in 1..Len(status) :
        \E c \in 1..4 : status[n].text = RuleHeading[c] /\ status[n].row = 0}

\* the rule heading a line of status stands under: the nearest one before it
RuleHeadingOf(status, n) ==
    LET before == {h \in RuleHeadings(status) : h < n}
    IN  IF before = {} THEN "" ELSE status[MaxOf(before)].text

\* C27: for a table or a foreign table with hasrules and at least one rule,
\* describe_one_table_details raises no exception and returns a descriptor
\* in which each rule has exactly one line, under the heading of its own
\* status (O "Rules:", D "Disabled rules:", A "Rules firing always:", R
\* "Rules firing on replica only:"), and a category has its heading, once,
\* exactly when a rule has that status.
C27_RuleBuckets ==
    (Described /\ last.facts.hasrow /\ last.facts.relkind \in {"r", "f"}
               /\ last.facts.relhasrules /\ last.facts.rules # <<>>
               /\ ~QueryFailed) =>
        LET status == last.out.status
            rules == last.facts.rules
        IN  /\ last.out.exc = ""
            /\ last.out.kind = "Descriptor"
            /\ \A j \in 1..Len(rules) :
                   LET lines == {n \in LinesOf(status, "rule") : status[n].row = j}
                   IN  /\ Cardinality(lines) = 1
                       /\ \A n \in lines :
                              RuleHeadingOf(status, n) = RuleHeading[CategoryOf(rules[j])]
            /\ \A c \in 1..4 :
                   Cardinality(LinesOf(status, RuleHeading[c])) =
                       IF \E j \in 1..Len(rules) : CategoryOf(rules[j]) = c
                       THEN 1 ELSE 0

\* C28: an index is reported as invalid exactly when its indisvalid is
\* false, in both places: the footer of an index has ", invalid" iff
\* indisvalid is false, and the line of each index in a table's "Indexes:"
\* section has " INVALID" iff indisvalid is false.
C28_InvalidFlag ==
    (DescriptorOf /\ ~QueryFailed) =>
        LET status == last.out.status
            f == last.facts
        IN  /\ f.relkind = "i" =>
                   ((LinesOf(status, ", invalid") # {}) <=> ~f.indisvalid)
            /\ (f.relkind \in TableKinds /\ f.relhasindex) =>
                   \A j \in 1..f.nindexes :
                       /\ Cardinality({n \in LinesOf(status, "index") :
                                          status[n].row = j}) = 1
                       /\ (\E n \in LinesOf(status, " INVALID") : status[n].row = j)
                              <=> ~f.indisvalid

---------------------------------------------------------------------------
(* Claims about execute and the special commands, checked under            *)
(* SpecExecute.                                                            *)

\* an execute call has ended, with a list or with an exception
ExecuteDone == xpc \in {"returned", "raised"}

\* C21: execute takes the executor of the parsed command from the
\* case-sensitive table when the command is a key of it, as typed; only
\* otherwise from the non-case-sensitive table, under the lowercased command;
\* and when the command is in neither it raises KeyError, no executor is called,
\* no query is issued and nothing else changes. So DESCRIBE describes, and
\* \D and \L, no keys of the first table, are not \d and \l.
C21_Lookup ==
    ExecuteDone =>
        LET c == xcall.command
            first == c \in DOMAIN CASE_SENSITIVE_COMMANDS
            second == LowerText(c) \in DOMAIN NON_CASE_SENSITIVE_COMMANDS
        IN  /\ first => xcall.executor = CASE_SENSITIVE_COMMANDS[c]
            /\ (~first /\ second) =>
                   xcall.executor = NON_CASE_SENSITIVE_COMMANDS[LowerText(c)]
            /\ (~first /\ ~second) <=> xcall.exc = "KeyError"
            /\ xcall.exc = "KeyError" =>
                   /\ xpc = "raised"
                   /\ ~xcall.called
                   /\ xcall.queries = <<>>
                   /\ queries = <<>>
                   /\ dpc = "idle"
                   /\ Flags = xcall.before
            /\ LowerText(c) = Describe => xcall.executor = Fn("describe_table_details")
            /\ c \in {Cmd(<<"D">>), Cmd(<<"L">>)} => xcall.exc = "KeyError"

\* \D nosuch has been executed: a command that is a key only when lowercased
C21_Witness ==
    /\ xpc = "raised"
    /\ xcall.command = Cmd(<<"D">>)
    /\ xcall.arg = NoSuch
    /\ xcall.exc = "KeyError"

\* the command word of an input: what precedes its first space
WordOf(sql) ==
    IF Holds(sql, " ")
    THEN SubSeq(sql, 1, (CHOOSE n \in 1..Len(sql) :
                            sql[n] = " " /\ ~Holds(SubSeq(sql, 1, n - 1), " ")) - 1)
    ELSE sql

\* what follows the first space of an input
RestOf(sql) ==
    IF Holds(sql, " ") THEN SubSeq(sql, Len(WordOf(sql)) + 2, Len(sql)) ELSE <<>>

\* the input without the + of its command word
PlainForm(sql) ==
    Removed(WordOf(sql), "+")
        \o (IF Holds(sql, " ") THEN <<" ">> \o RestOf(sql) ELSE <<>>)

\* the + form of a command is dispatched as its plain form is, but for the
\* verbose flag passed
SameDispatch ==
    LET plain == parse_special_command(PlainForm(xcall.sql))
    IN  /\ ~plain.verbose
        /\ xcall.command = plain.command
        /\ xcall.arg = plain.arg
        /\ xcall.executor = command_executor(plain.command)
        /\ xcall.executor = Fn("describe_table_details") =>
               dargs = [pattern |-> xcall.arg, verbose |-> xcall.verbose]

\* C29, as stated: the input is split at its first space into a command word
\* and an argument; verbose is true iff the word contains +; the command is
\* the word with every + removed; the argument is stripped; a command and
\* its + form are dispatched to the same executor with the same argument and
\* differ in the verbose flag only.
C29_PlusRemoved ==
    ExecuteDone =>
        /\ xcall.verbose <=> Holds(WordOf(xcall.sql), "+")
        /\ xcall.command = Removed(WordOf(xcall.sql), "+")
        /\ xcall.arg = strip(RestOf(xcall.sql))
        /\ SameDispatch

\* C29, amended: the same, but the command is the word stripped of the
\* whitespace around it and then with every + removed.
C29_StrippedPlusRemoved ==
    ExecuteDone =>
        /\ xcall.verbose <=> Holds(WordOf(xcall.sql), "+")
        /\ xcall.command = Removed(strip(WordOf(xcall.sql)), "+")
        /\ xcall.arg = strip(RestOf(xcall.sql))
        /\ SameDispatch

\* a \d+ typed after a newline, with a padded argument, has been executed:
\* the relation named is looked for, verbosely
C29_Witness ==
    /\ xpc = "returned"
    /\ xcall.sql[1] = "\n"
    /\ Holds(WordOf(xcall.sql), "+")
    /\ RestOf(xcall.sql) # xcall.arg
    /\ xcall.command = Cmd(<<"d">>)
    /\ xcall.called
    /\ dargs = [pattern |-> NoSuch, verbose |-> TRUE]

\* this step is a call of the named toggle
Toggling(name) ==
    /\ xpc = "idle"
    /\ xpc' = "returned"
    /\ xcall'.executor = Fn(name)

\* the message of the call that this step is ends in 'on.'
SaysOn == xcall'.message[Len(xcall'.message)] = "on."

\* C30: a call of expanded_output flips use_expanded_output and leaves
\* TIMING_ENABLED alone, a call of toggle_timing flips TIMING_ENABLED and
\* leaves use_expanded_output alone; the message returned ends in 'on.' iff
\* the call's flag is true after the call; and after two consecutive calls
\* of the same toggle both flags have the values they had before the first.
C30_Toggles ==
    /\ [][Toggling("expanded_output") =>
              /\ use_expanded_output' = ~use_expanded_output
              /\ TIMING_ENABLED' = TIMING_ENABLED
              /\ SaysOn <=> use_expanded_output']_vars
    /\ [][Toggling("toggle_timing") =>
              /\ TIMING_ENABLED' = ~TIMING_ENABLED
              /\ use_expanded_output' = use_expanded_output
              /\ SaysOn <=> TIMING_ENABLED']_vars
    /\ []((/\ xpc = "returned"
           /\ xcall.executor \in {Fn("expanded_output"), Fn("toggle_timing")}
           /\ xcall.prior.executor = xcall.executor) =>
              Flags = xcall.prior.before)

\* timing has been toggled twice in a row, and is on again, while the
\* expanded display is on
C30_Witness ==
    /\ xpc = "returned"
    /\ xcall.executor = Fn("toggle_timing")
    /\ xcall.prior.executor = Fn("toggle_timing")
    /\ xcall.prior.before.TIMING_ENABLED
    /\ TIMING_ENABLED
    /\ use_expanded_output
    /\ xcall.message = <<"Timing is ", "on.">>
=============================================================================
